---- MODULE Spec2Model ----
(***************************************************************************)
(* The AgentBridge contract (src/unnamed/part_007, "module.exports = {name:  *)
(* 'agentbridge', state, handlers}") as a state machine.                     *)
(*                                                                           *)
(* A JavaScript object is modelled by what it reads as: a map is a function  *)
(* over its present keys, an array is a sequence, an absent property is      *)
(* Undef and a null is Null.  Every handler is an operator that returns      *)
(*   err   : "ok", or the message of the Error it throws,                    *)
(*   state : the object it returns (without the _event key),                 *)
(*   event : the type of the _event it attaches,                             *)
(*   old   : what the object it was GIVEN reads as after the call (the       *)
(*           handlers start from the shallow copy {...state}, so a write     *)
(*           through an uncopied field lands in the caller's object too),    *)
(*   kept  : the top-level fields of the returned object that are still the  *)
(*           very object the given state held (not replaced by a copy).      *)
(* Numbers in [0,1] (proficiency, score, minScore) are kept in tenths.       *)
(***************************************************************************)
EXTENDS Integers, Sequences, FiniteSets, TLC

\* ------------------------------------------------------------------ values
Undef == "undefined"
Null  == "null"

\* A value that is not a string (a number, a boolean, an array) and may be
\* undefined is None or Some(x); a number that may be null is JsNull or Some(x).
None    == << >>
Some(x) == <<x>>
JsNull  == <<Null, Null>>

\* Truthiness of JavaScript, per type: "", undefined and null are falsy
\* strings; 0 and undefined are falsy numbers; false and undefined are falsy
\* booleans.
TruthyStr(x)  == x \notin {Undef, Null, ""}
TruthyNum(o)  == o # None /\ o # JsNull /\ o[1] # 0
TruthyBool(o) == o = Some(TRUE)

\* {...a, ...b}: the keys of both, b's values winning.
Spread(a, b) == [f \in (DOMAIN a) \cup (DOMAIN b) |-> IF f \in DOMAIN b THEN b[f] ELSE a[f]]

\* Tenths: 10 stands for 1.0, 5 for the 0.5 defaults.
One  == 10
Half == 5

Min(a, b) == IF a < b THEN a ELSE b
Max(a, b) == IF a > b THEN a ELSE b

\* Math.min(1, Math.max(0, x))
Clamp01(x) == Min(One, Max(0, x))

\* ------------------------------------------------------------------ arrays
\* Array.prototype.includes
Includes(arr, x) == \E i \in 1..Len(arr) : arr[i] = x

\* Array.prototype.indexOf, 1-based; 0 stands for -1
IndexOf(arr, x) ==
  IF Includes(arr, x) THEN CHOOSE i \in 1..Len(arr) : arr[i] = x /\ \A j \in 1..(i-1) : arr[j] # x
  ELSE 0

\* arr.splice(i, 1)
SpliceOut(arr, i) == [j \in 1..(Len(arr)-1) |-> IF j < i THEN arr[j] ELSE arr[j+1]]

\* const idx = arr.indexOf(x); if (idx > -1) arr.splice(idx, 1)
RemoveFirst(arr, x) == IF IndexOf(arr, x) = 0 THEN arr ELSE SpliceOut(arr, IndexOf(arr, x))

\* Mutant: the id is pushed without looking for it in the array.
PushAlways(arr, x) == Append(arr, x)

\* if (!arr.includes(x)) arr.push(x)
PushIfAbsent(arr, x) == IF Includes(arr, x) THEN arr ELSE Append(arr, x)

\* ------------------------------------------------------------------ maps
Has(map, k) == k \in DOMAIN map

\* map[k] = v
Put(map, k, v) == [x \in (DOMAIN map) \cup {k} |-> IF x = k THEN v ELSE map[x]]

\* delete map[k]
Delete(map, k) == [x \in (DOMAIN map) \ {k} |-> map[x]]

EmptyMap == [x \in {} |-> Undef]

\* ------------------------------------------------------------------ errors
NameRequired          == "Agent name is required"
DuplicateName         == "Agent name already registered"
NotRegistered         == "Agent not registered"
EmptyCapabilitySet    == "At least one required capability is needed"
RequestNotFound       == "Match request not found"
RequestExpired        == "Match request expired"
RequestNotPending     == "Match request no longer pending"
ProposerNotRegistered == "Proposer agent not registered"
Unauthorized          == "Only the request creator can accept proposals"
ProposalNotFound      == "Proposal not found"
Ok                    == "ok"

\* A handler that throws: nothing was written, nothing is returned.
Throw(state, msg) ==
  [err |-> msg, state |-> state, event |-> Undef, old |-> state, kept |-> {}]

\* ------------------------------------------------------------------ state
\* The fields of the state object.
Fields == {"agents", "capabilityIndex", "matchRequests", "matchProposals",
           "channelMembers", "reputation", "stats"}

\* module.exports.state: agentKeys is the key order of the agents object
\* (Object.values / for-in order), which a function does not carry.
InitialState ==
  [agents          |-> EmptyMap,
   agentKeys       |-> << >>,
   capabilityIndex |-> EmptyMap,
   matchRequests   |-> EmptyMap,
   matchProposals  |-> EmptyMap,
   channelMembers  |-> EmptyMap,
   reputation      |-> EmptyMap,
   stats           |-> [totalAgents |-> 0, totalMatches |-> 0, successfulMatches |-> 0,
                        totalChannels |-> 0, totalMessages |-> 0]]

\* ------------------------------------------------------------------ agents
\* capabilities.map(cap => ({name, proficiency, certified, certifiedBy,
\* certifiedAt})) of agent_register
RegisteredCap(cap, writer, timestamp) ==
  [name        |-> cap.name,
   proficiency |-> Clamp01(IF TruthyNum(cap.proficiency) THEN cap.proficiency[1] ELSE Half),
   certified   |-> TruthyBool(cap.certified),
   certifiedBy |-> IF TruthyBool(cap.certified) THEN writer ELSE Null,
   certifiedAt |-> IF TruthyBool(cap.certified) THEN Some(timestamp) ELSE JsNull]

\* capabilities.map(cap => ({name, proficiency, certified})) of agent_update
UpdatedCap(cap) ==
  [name        |-> cap.name,
   proficiency |-> Clamp01(IF TruthyNum(cap.proficiency) THEN cap.proficiency[1] ELSE Half),
   certified   |-> TruthyBool(cap.certified)]

\* for (const cap of capabilities) { if (!index[cap.name]) index[cap.name] = [];
\*   if (!index[cap.name].includes(agentId)) index[cap.name].push(agentId) }
RECURSIVE AddToIndex(_, _, _)
AddToIndex(index, caps, agentId) ==
  IF caps = << >> THEN index
  ELSE LET name == Head(caps).name
           arr  == IF Has(index, name) THEN index[name] ELSE << >>
       IN AddToIndex(Put(index, name, PushIfAbsent(arr, agentId)), Tail(caps), agentId)

\* Mutant: the old index entries are not removed.
RemoveFromIndexNever(index, caps, agentId) == index

\* for (const cap of agent.capabilities) { const idx = index[cap.name]?.indexOf(agentId);
\*   if (idx > -1) index[cap.name].splice(idx, 1) }
RECURSIVE RemoveFromIndex(_, _, _)
RemoveFromIndex(index, caps, agentId) ==
  IF caps = << >> THEN index
  ELSE LET name == Head(caps).name
           next == IF Has(index, name) THEN Put(index, name, RemoveFirst(index[name], agentId))
                   ELSE index
       IN RemoveFromIndex(next, Tail(caps), agentId)

\* Mutant: the lookup compares the agents' ids with the name.
NameTakenById(state, name) == \E id \in DOMAIN state.agents : state.agents[id].id = name

\* Object.values(state.agents).find(a => a.name === name)
NameTaken(state, name) == \E id \in DOMAIN state.agents : state.agents[id].name = name

\* The agent profile agent_register builds.
NewAgent(payload, context) ==
  LET capabilities == IF payload.capabilities = None THEN << >> ELSE payload.capabilities[1]
  IN [id           |-> context.writer,
      name         |-> payload.name,
      description  |-> IF TruthyStr(payload.description) THEN payload.description ELSE "",
      capabilities |-> [i \in 1..Len(capabilities) |->
                          RegisteredCap(capabilities[i], context.writer, context.timestamp)],
      protocol     |-> IF payload.protocol = Undef THEN "intercom" ELSE payload.protocol,
      visibility   |-> IF payload.visibility = Undef THEN "public" ELSE payload.visibility,
      endpoint     |-> IF TruthyStr(payload.endpoint) THEN payload.endpoint ELSE Null,
      status       |-> "online",
      createdAt    |-> context.timestamp,
      updatedAt    |-> context.timestamp,
      matchCount   |-> 0,
      successCount |-> 0]

\* agent_register past its checks. newState = {...state}: the agent and the
\* index entries are written into the given state's own agents and
\* capabilityIndex objects, only stats is copied.
Registered(state, payload, context) ==
  LET agentId      == context.writer
      capabilities == IF payload.capabilities = None THEN << >> ELSE payload.capabilities[1]
      written ==
        [state EXCEPT
           !.agents          = Put(state.agents, agentId, NewAgent(payload, context)),
           !.agentKeys       = PushIfAbsent(state.agentKeys, agentId),
           !.capabilityIndex = AddToIndex(state.capabilityIndex, capabilities, agentId)]
  IN [err   |-> Ok,
      state |-> [written EXCEPT !.stats.totalAgents = @ + 1],
      event |-> "agent_registered",
      old   |-> written,
      kept  |-> Fields \ {"stats"}]

\* Mutant: the index entries are written before the duplicate-name check.
agent_register_lateCheck(state, payload, context) ==
  IF ~TruthyStr(payload.name) THEN Throw(state, NameRequired)
  ELSE IF NameTaken(state, payload.name)
       THEN [Throw(state, DuplicateName) EXCEPT
               !.old = [state EXCEPT !.capabilityIndex =
                           Registered(state, payload, context).old.capabilityIndex]]
  ELSE Registered(state, payload, context)

agent_register(state, payload, context) ==
  IF ~TruthyStr(payload.name) THEN Throw(state, NameRequired)
  ELSE IF NameTaken(state, payload.name) THEN Throw(state, DuplicateName)
  ELSE Registered(state, payload, context)

agent_update(state, payload, context) ==
  LET writer    == context.writer
      timestamp == context.timestamp
      agentId   == writer
      existingAgent == state.agents[agentId]
      supplied  == payload.capabilities # None
      capabilities == payload.capabilities[1]
      \* the old entries are spliced out of the given state's own arrays
      removed == RemoveFromIndex(state.capabilityIndex, existingAgent.capabilities, agentId)
      \* {...state.capabilityIndex}: a new map over the same arrays
      added   == AddToIndex(removed, capabilities, agentId)
      a1 == IF TruthyStr(payload.status) /\ payload.status \in {"online", "offline", "busy"}
            THEN [existingAgent EXCEPT !.status = payload.status] ELSE existingAgent
      a2 == IF supplied
            THEN [a1 EXCEPT !.capabilities =
                    [i \in 1..Len(capabilities) |-> UpdatedCap(capabilities[i])]]
            ELSE a1
      a3 == IF TruthyStr(payload.visibility) /\ payload.visibility \in {"public", "private"}
            THEN [a2 EXCEPT !.visibility = payload.visibility] ELSE a2
      a4 == IF payload.endpoint # Undef THEN [a3 EXCEPT !.endpoint = payload.endpoint] ELSE a3
      updatedAgent == [a4 EXCEPT !.updatedAt = timestamp]
      agents == Put(state.agents, agentId, updatedAgent)
  IN IF ~Has(state.agents, agentId) THEN Throw(state, NotRegistered)
     ELSE [err   |-> Ok,
           state |-> [state EXCEPT !.agents = agents,
                                   !.capabilityIndex = IF supplied THEN added ELSE @],
           event |-> "agent_updated",
           \* the given state keeps its own map: the arrays it already held are
           \* the ones spliced and pushed to, the arrays made for new names are not in it
           old   |-> [state EXCEPT !.agents = agents,
                                   !.capabilityIndex =
                                      IF supplied THEN [n \in DOMAIN state.capabilityIndex |-> added[n]]
                                      ELSE @],
           kept  |-> IF supplied THEN Fields \ {"capabilityIndex"} ELSE Fields]

agent_unregister(state, payload, context) ==
  LET writer  == context.writer
      agentId == writer
      existingAgent == state.agents[agentId]
      written ==
        [state EXCEPT
           !.capabilityIndex = RemoveFromIndex(state.capabilityIndex, existingAgent.capabilities, agentId),
           !.agents          = Delete(state.agents, agentId),
           !.agentKeys       = RemoveFirst(state.agentKeys, agentId)]
  IN IF ~Has(state.agents, agentId) THEN Throw(state, NotRegistered)
     ELSE [err   |-> Ok,
           state |-> [written EXCEPT !.stats.totalAgents = @ - 1],
           event |-> "agent_unregistered",
           old   |-> written,
           kept  |-> Fields \ {"stats"}]

\* ------------------------------------------------------------------ matches
\* The signers' keys, and writer.slice(0, 8) of each.
Writers == {"aaaaaaaa01", "bbbbbbbb01"}
Slice8(writer) ==
  CASE writer = "aaaaaaaa01" -> "aaaaaaaa"
    [] writer = "aaaaaaaa02" -> "aaaaaaaa"
    [] writer = "bbbbbbbb01" -> "bbbbbbbb"

\* `match-${writer.slice(0, 8)}-${timestamp}`
MatchId(writer, timestamp) == <<"match", Slice8(writer), timestamp>>

\* `${matchId}-${proposerId}`
ProposalKey(matchId, proposerId) == <<matchId, proposerId>>

TtlDefault == 300
MsPerSecond == 1000

\* Mutant: the ttl is added to the timestamp as if it were in milliseconds.
match_create_ttlAsMillis(state, payload, context) ==
  LET writer    == context.writer
      timestamp == context.timestamp
      requiredCapabilities ==
        IF payload.requiredCapabilities = None THEN << >> ELSE payload.requiredCapabilities[1]
      minScore  == IF payload.minScore = None THEN Half ELSE payload.minScore[1]
      ttl       == IF payload.ttl = None THEN TtlDefault ELSE payload.ttl[1]
      preferredProtocols ==
        IF payload.preferredProtocols = None THEN << >> ELSE payload.preferredProtocols[1]
      matchId   == MatchId(writer, timestamp)
      expiresAt == timestamp + ttl
      request ==
        [id                   |-> matchId,
         requesterId          |-> writer,
         requiredCapabilities |-> requiredCapabilities,
         minScore             |-> minScore,
         taskDescription      |-> IF TruthyStr(payload.taskDescription)
                                  THEN payload.taskDescription ELSE "",
         preferredProtocols   |-> preferredProtocols,
         expiresAt            |-> expiresAt,
         createdAt            |-> timestamp,
         status               |-> "pending"]
  IN IF Len(requiredCapabilities) = 0 THEN Throw(state, EmptyCapabilitySet)
     ELSE [err   |-> Ok,
           state |-> [state EXCEPT !.matchRequests = Put(@, matchId, request),
                                   !.stats.totalMatches = @ + 1],
           event |-> "match_request_created",
           old   |-> state,
           kept  |-> Fields \ {"matchRequests", "stats"}]

match_create(state, payload, context) ==
  LET writer    == context.writer
      timestamp == context.timestamp
      requiredCapabilities ==
        IF payload.requiredCapabilities = None THEN << >> ELSE payload.requiredCapabilities[1]
      minScore  == IF payload.minScore = None THEN Half ELSE payload.minScore[1]
      ttl       == IF payload.ttl = None THEN TtlDefault ELSE payload.ttl[1]
      preferredProtocols ==
        IF payload.preferredProtocols = None THEN << >> ELSE payload.preferredProtocols[1]
      matchId   == MatchId(writer, timestamp)
      expiresAt == timestamp + (ttl * MsPerSecond)
      request ==
        [id                   |-> matchId,
         requesterId          |-> writer,
         requiredCapabilities |-> requiredCapabilities,
         minScore             |-> minScore,
         taskDescription      |-> IF TruthyStr(payload.taskDescription)
                                  THEN payload.taskDescription ELSE "",
         preferredProtocols   |-> preferredProtocols,
         expiresAt            |-> expiresAt,
         createdAt            |-> timestamp,
         status               |-> "pending"]
  IN IF Len(requiredCapabilities) = 0 THEN Throw(state, EmptyCapabilitySet)
     ELSE [err   |-> Ok,
           state |-> [state EXCEPT !.matchRequests = Put(@, matchId, request),
                                   !.stats.totalMatches = @ + 1],
           event |-> "match_request_created",
           old   |-> state,
           kept  |-> Fields \ {"matchRequests", "stats"}]

\* Mutant: a proposal at the deadline itself counts as expired.
ExpiredAtDeadline(request, timestamp) == timestamp >= request.expiresAt

\* timestamp > request.expiresAt
Expired(request, timestamp) == timestamp > request.expiresAt

\* match_propose past its checks
Proposed(state, payload, context) ==
  LET writer   == context.writer
      matchId  == payload.matchId
      proposal ==
        [matchId             |-> matchId,
         proposerId          |-> writer,
         score               |-> Clamp01(payload.score),
         matchedCapabilities |-> payload.matchedCapabilities,
         proposedAt          |-> context.timestamp,
         status              |-> "proposed"]
  IN [err   |-> Ok,
      state |-> [state EXCEPT !.matchProposals =
                                 Put(@, ProposalKey(matchId, writer), proposal)],
      event |-> "match_proposed",
      old   |-> state,
      kept  |-> Fields \ {"matchProposals"}]

match_propose(state, payload, context) ==
  LET matchId == payload.matchId
      request == state.matchRequests[matchId]
  IN IF ~Has(state.matchRequests, matchId) THEN Throw(state, RequestNotFound)
     ELSE IF Expired(request, context.timestamp) THEN Throw(state, RequestExpired)
     ELSE IF request.status # "pending" THEN Throw(state, RequestNotPending)
     ELSE IF ~Has(state.agents, context.writer) THEN Throw(state, ProposerNotRegistered)
     ELSE Proposed(state, payload, context)

\* match_accept past its checks
Accepted(state, payload, context) ==
  LET writer      == context.writer
      timestamp   == context.timestamp
      matchId     == payload.matchId
      proposerId  == payload.proposerId
      request     == state.matchRequests[matchId]
      proposalKey == ProposalKey(matchId, proposerId)
      proposal    == state.matchProposals[proposalKey]
      \* requester and proposer are both read before either is written
      withRequester ==
        IF Has(state.agents, writer)
        THEN Put(state.agents, writer, [state.agents[writer] EXCEPT !.matchCount = @ + 1])
        ELSE state.agents
      withProposer ==
        IF Has(state.agents, proposerId)
        THEN Put(withRequester, proposerId,
                 [state.agents[proposerId] EXCEPT !.matchCount = @ + 1])
        ELSE withRequester
  IN [err   |-> Ok,
      state |-> [state EXCEPT
                   !.matchRequests = Put(@, matchId,
                      Spread(request, [status       |-> "accepted",
                                       acceptedWith |-> proposerId,
                                       acceptedAt   |-> timestamp])),
                   !.matchProposals = Put(@, proposalKey,
                      [proposal EXCEPT !.status = "accepted"]),
                   !.agents = withProposer],
      event |-> "match_accepted",
      old   |-> state,
      kept  |-> Fields \ {"matchRequests", "matchProposals", "agents"}]

\* Mutant: the signer is not compared with the requester.
match_accept_anySigner(state, payload, context) ==
  LET matchId == payload.matchId
  IN IF ~Has(state.matchRequests, matchId) THEN Throw(state, RequestNotFound)
     ELSE IF ~Has(state.matchProposals, ProposalKey(matchId, payload.proposerId))
          THEN Throw(state, ProposalNotFound)
     ELSE Accepted(state, payload, context)

match_accept(state, payload, context) ==
  LET matchId == payload.matchId
  IN IF ~Has(state.matchRequests, matchId) THEN Throw(state, RequestNotFound)
     ELSE IF state.matchRequests[matchId].requesterId # context.writer
          THEN Throw(state, Unauthorized)
     ELSE IF ~Has(state.matchProposals, ProposalKey(matchId, payload.proposerId))
          THEN Throw(state, ProposalNotFound)
     ELSE Accepted(state, payload, context)

\* ------------------------------------------------------------------ reputation
RECURSIVE Gcd(_, _)
Gcd(a, b) == IF b = 0 THEN a ELSE Gcd(b, a % b)

\* a / b of two integers, b > 0, as the fraction in lowest terms (equal
\* quotients are equal doubles and the other way round at these sizes).
Quotient(a, b) == [num |-> a \div Gcd(a, b), den |-> b \div Gcd(a, b)]

\* Mutant: the latest rating stands for every record.
SumRatingsLatest(ratings) ==
  IF ratings = << >> THEN 0 ELSE ratings[Len(ratings)].rating * Len(ratings)

\* rep.ratings.reduce((sum, r) => sum + r.rating, 0)
RECURSIVE SumRatings(_)
SumRatings(ratings) ==
  IF ratings = << >> THEN 0 ELSE Head(ratings).rating + SumRatings(Tail(ratings))

match_complete(state, payload, context) ==
  LET writer    == context.writer
      timestamp == context.timestamp
      matchId   == payload.matchId
      success   == IF payload.success = None THEN TRUE ELSE payload.success[1]
      rating    == payload.rating
      request   == state.matchRequests[matchId]
      completed ==
        Spread(request, [status      |-> "completed",
                         completedAt |-> timestamp,
                         success     |-> success,
                         rating      |-> rating,
                         feedback    |-> payload.feedback])
      \* if (rating && request.acceptedWith)
      rated    == TruthyNum(rating) /\ "acceptedWith" \in DOMAIN request
                  /\ TruthyStr(request.acceptedWith)
      targetId == IF writer = request.requesterId THEN request.acceptedWith
                  ELSE request.requesterId
      known    == Has(state.reputation, targetId)
      before   == IF known THEN state.reputation[targetId]
                  ELSE [totalRatings |-> 0, averageRating |-> Quotient(0, 1), ratings |-> << >>]
      ratings  == Append(before.ratings,
                         [rating |-> rating[1], from |-> writer,
                          matchId |-> matchId, timestamp |-> timestamp])
      rep      == [totalRatings  |-> before.totalRatings + 1,
                   averageRating |-> Quotient(SumRatings(ratings), before.totalRatings + 1),
                   ratings       |-> ratings]
      credited == rated /\ success /\ Has(state.agents, targetId)
  IN IF ~Has(state.matchRequests, matchId) THEN Throw(state, RequestNotFound)
     ELSE [err   |-> Ok,
           state |-> [state EXCEPT
                        !.matchRequests = Put(@, matchId, completed),
                        !.stats.successfulMatches = IF success THEN @ + 1 ELSE @,
                        !.reputation = IF rated THEN Put(@, targetId, rep) ELSE @,
                        !.agents = IF credited
                                   THEN Put(@, targetId,
                                            [state.agents[targetId] EXCEPT !.successCount = @ + 1])
                                   ELSE @],
           event |-> "match_completed",
           \* an entry the given state already held is the object pushed to
           old   |-> [state EXCEPT
                        !.reputation = IF rated /\ known THEN Put(@, targetId, rep) ELSE @],
           kept  |-> Fields \ ({"matchRequests", "stats"}
                               \cup (IF rated THEN {"reputation"} ELSE {})
                               \cup (IF credited THEN {"agents"} ELSE {}))]

\* ------------------------------------------------------------------ channels
channel_join(state, payload, context) ==
  LET writer    == context.writer
      channelId == payload.channelId
      known     == Has(state.channelMembers, channelId)
      members   == PushIfAbsent(IF known THEN state.channelMembers[channelId] ELSE << >>, writer)
  IN IF ~Has(state.agents, writer) THEN Throw(state, NotRegistered)
     ELSE [err   |-> Ok,
           state |-> [state EXCEPT
                        !.channelMembers = Put(@, channelId, members),
                        !.stats.totalChannels = IF known THEN @ ELSE @ + 1],
           event |-> "channel_joined",
           \* an array the given state already held is the array pushed to
           old   |-> [state EXCEPT
                        !.channelMembers = IF known THEN Put(@, channelId, members) ELSE @],
           kept  |-> Fields \ ({"channelMembers"} \cup (IF known THEN {} ELSE {"stats"}))]

channel_leave(state, payload, context) ==
  LET writer    == context.writer
      channelId == payload.channelId
      members   == IF Has(state.channelMembers, channelId)
                   THEN Put(state.channelMembers, channelId,
                            RemoveFirst(state.channelMembers[channelId], writer))
                   ELSE state.channelMembers
  IN [err   |-> Ok,
      state |-> [state EXCEPT !.channelMembers = members],
      event |-> "channel_left",
      old   |-> [state EXCEPT !.channelMembers = members],
      kept  |-> Fields \ {"channelMembers"}]

\* Returns newState itself: the _event key of the given state is carried over.
message_record(state, payload, context) ==
  [err   |-> Ok,
   state |-> [state EXCEPT !.stats.totalMessages = @ + 1],
   event |-> Undef,
   old   |-> state,
   kept  |-> Fields \ {"stats"}]

\* handlers[op](state, payload, context)
handlers(op, state, payload, context) ==
  CASE op = "agent_register"   -> agent_register(state, payload, context)
    [] op = "agent_update"     -> agent_update(state, payload, context)
    [] op = "agent_unregister" -> agent_unregister(state, payload, context)
    [] op = "match_create"     -> match_create(state, payload, context)
    [] op = "match_propose"    -> match_propose(state, payload, context)
    [] op = "match_accept"     -> match_accept(state, payload, context)
    [] op = "match_complete"   -> match_complete(state, payload, context)
    [] op = "channel_join"     -> channel_join(state, payload, context)
    [] op = "channel_leave"    -> channel_leave(state, payload, context)
    [] op = "message_record"   -> message_record(state, payload, context)

\* ------------------------------------------------------------------ readers
DiscoverLimitDefault == 20

\* matchingAgentIds.add(id) for every id of the array: a Set keeps the order
\* in which its members were first added
RECURSIVE AddAll(_, _)
AddAll(ids, arr) ==
  IF arr = << >> THEN ids ELSE AddAll(PushIfAbsent(ids, Head(arr)), Tail(arr))

\* Mutant: only the first requested capability is looked up in the index.
SeedFromIndexFirst(ids, index, capabilities) ==
  IF capabilities = << >> THEN ids
  ELSE AddAll(ids, IF Has(index, Head(capabilities)) THEN index[Head(capabilities)] ELSE << >>)

\* for (const capName of capabilities) { (index[capName] || []).forEach(add) }
RECURSIVE SeedFromIndex(_, _, _)
SeedFromIndex(ids, index, capabilities) ==
  IF capabilities = << >> THEN ids
  ELSE LET capName == Head(capabilities)
           agentsWithCap == IF Has(index, capName) THEN index[capName] ELSE << >>
       IN SeedFromIndex(AddAll(ids, agentsWithCap), index, Tail(capabilities))

\* Object.values(state.agents).filter(a => a.visibility === 'public').forEach(a => add(a.id))
RECURSIVE SeedFromAgents(_, _, _)
SeedFromAgents(ids, state, keys) ==
  IF keys = << >> THEN ids
  ELSE LET a == state.agents[Head(keys)]
       IN SeedFromAgents(IF a.visibility = "public" THEN PushIfAbsent(ids, a.id) ELSE ids,
                         state, Tail(keys))

\* Mutant: every matched capability counts as 1, whatever its proficiency.
ScoreCapsCounted(acc, caps, capabilities, minProficiency) ==
  LET Hit(cap) == Includes(capabilities, cap.name) /\ cap.proficiency >= minProficiency
      hits == SelectSeq(caps, Hit)
  IN [matchedCapabilities |-> [i \in 1..Len(hits) |-> hits[i].name],
      totalScore |-> Len(hits) * One]

\* for (const cap of agent.capabilities) { if (capabilities.includes(cap.name)
\*   && cap.proficiency >= minProficiency) { matched.push(cap.name); total += cap.proficiency } }
RECURSIVE ScoreCaps(_, _, _, _)
ScoreCaps(acc, caps, capabilities, minProficiency) ==
  IF caps = << >> THEN acc
  ELSE LET cap == Head(caps)
           hit == Includes(capabilities, cap.name) /\ cap.proficiency >= minProficiency
       IN ScoreCaps(IF hit THEN [matchedCapabilities |-> Append(acc.matchedCapabilities, cap.name),
                                 totalScore |-> acc.totalScore + cap.proficiency]
                    ELSE acc,
                    Tail(caps), capabilities, minProficiency)

\* the loop over matchingAgentIds: the results array before it is sorted
RECURSIVE Collect(_, _, _, _, _, _)
Collect(results, state, ids, capabilities, minProficiency, status) ==
  IF ids = << >> THEN results
  ELSE LET agentId == Head(ids)
           agent   == state.agents[agentId]
           skip    == \/ ~Has(state.agents, agentId)
                      \/ agent.visibility # "public"
                      \/ (TruthyStr(status) /\ agent.status # status)
           scored  == ScoreCaps([matchedCapabilities |-> << >>, totalScore |-> 0],
                                agent.capabilities, capabilities, minProficiency)
           matchScore == IF Len(capabilities) > 0
                         THEN Quotient(scored.totalScore, Len(capabilities))
                         ELSE Quotient(Half, 1)
           entry   == [id |-> agent.id, name |-> agent.name, description |-> agent.description,
                       status |-> agent.status, protocol |-> agent.protocol,
                       capabilities |-> agent.capabilities,
                       matchedCapabilities |-> scored.matchedCapabilities,
                       matchScore |-> matchScore,
                       reputation |-> IF Has(state.reputation, agentId)
                                      THEN Some(state.reputation[agentId]) ELSE JsNull]
           keep    == ~skip /\ (Len(scored.matchedCapabilities) > 0 \/ Len(capabilities) = 0)
       IN Collect(IF keep THEN Append(results, entry) ELSE results,
                  state, Tail(ids), capabilities, minProficiency, status)

\* a.matchScore > b.matchScore, of two quotients in lowest terms
ScoreAbove(a, b) == a.matchScore.num * b.matchScore.den > b.matchScore.num * a.matchScore.den

\* results.sort((a, b) => b.matchScore - a.matchScore): stable, highest score
\* first; the entry is put behind every entry that does not score below it
InsertByScore(sorted, entry) ==
  LET n == Cardinality({i \in 1..Len(sorted) : ~ScoreAbove(entry, sorted[i])})
  IN SubSeq(sorted, 1, n) \o <<entry>> \o SubSeq(sorted, n + 1, Len(sorted))

RECURSIVE SortByScore(_, _)
SortByScore(sorted, results) ==
  IF results = << >> THEN sorted
  ELSE SortByScore(InsertByScore(sorted, Head(results)), Tail(results))

\* what discover returns: {agents: results.slice(0, limit), total: results.length}
Discovered(state, params) ==
  LET capabilities   == IF params.capabilities = None THEN << >> ELSE params.capabilities[1]
      minProficiency == IF params.minProficiency = None THEN 0 ELSE params.minProficiency[1]
      limit          == IF params.limit = None THEN DiscoverLimitDefault ELSE params.limit[1]
      seeded  == SeedFromIndex(<< >>, state.capabilityIndex, capabilities)
      ids     == IF Len(capabilities) = 0 THEN SeedFromAgents(seeded, state, state.agentKeys)
                 ELSE seeded
      results == SortByScore(<< >>,
                   Collect(<< >>, state, ids, capabilities, minProficiency, params.status))
  IN [agents |-> SubSeq(results, 1, Min(limit, Len(results))), total |-> Len(results)]

\* Mutant: the lookup leaves an empty list in the index under every
\* requested name it did not find.
discover_fillIndex(state, params) ==
  LET capabilities == IF params.capabilities = None THEN << >> ELSE params.capabilities[1]
  IN [result |-> Discovered(state, params),
      old    |-> [state EXCEPT !.capabilityIndex =
                    [n \in (DOMAIN @) \cup {capabilities[i] : i \in 1..Len(capabilities)} |->
                       IF n \in DOMAIN @ THEN @[n] ELSE << >>]]]

\* readers.discover(state, params): result is what it returns, old what the
\* state it was given reads as after the call (the reader writes nothing)
discover(state, params) ==
  [result |-> Discovered(state, params), old |-> state]

\* discoverAgents(request) of the database-backed service: findMany with the
\* where clause and take: limit over the stored rows (given in the order the
\* database returns them), then the scoring of the rows taken and the sort.
discoverAgents(rows, request) ==
  LET capabilities   == IF request.capabilities = None THEN << >> ELSE request.capabilities[1]
      minProficiency == IF request.minProficiency = None THEN 0 ELSE request.minProficiency[1]
      limit          == IF request.limit = None THEN DiscoverLimitDefault ELSE request.limit[1]
      Where(agent) ==
        /\ TruthyStr(request.status) => agent.status = request.status
        /\ Len(capabilities) > 0
             => \E i \in 1..Len(agent.capabilities) :
                   /\ agent.capabilities[i].proficiency >= minProficiency
                   /\ Includes(capabilities, agent.capabilities[i].name)
      found == SelectSeq(rows, Where)
      taken == SubSeq(found, 1, Min(limit, Len(found)))
      Matches(ac) ==
        /\ Len(capabilities) = 0 \/ Includes(capabilities, ac.name)
        /\ ac.proficiency >= minProficiency
      Result(agent) ==
        LET matched == SelectSeq(agent.capabilities, Matches)
        IN [id |-> agent.id, name |-> agent.name,
            description |-> IF TruthyStr(agent.description) THEN agent.description ELSE Undef,
            status |-> agent.status,
            matchedCapabilities |-> [i \in 1..Len(matched) |-> matched[i].name],
            matchScore |-> IF Len(capabilities) > 0
                           THEN Quotient(Len(matched) * One, Len(capabilities))
                           ELSE Quotient(One, 1)]
      results == SortByScore(<< >>, [i \in 1..Len(taken) |-> Result(taken[i])])
  IN [agents |-> results, total |-> Len(results)]

\* totalScore += cap.proficiency over the matched capabilities
RECURSIVE SumProficiency(_)
SumProficiency(caps) ==
  IF caps = << >> THEN 0 ELSE Head(caps).proficiency + SumProficiency(Tail(caps))

\* AgentBridge.discoverAgents(query) on the agents of a view: every public
\* agent is scored, the ones without a match are filtered out, the rest is
\* sorted and sliced.
bridgeDiscoverAgents(state, query) ==
  LET capabilities   == IF query.capabilities = None THEN << >> ELSE query.capabilities[1]
      minProficiency == IF query.minProficiency = None THEN 0 ELSE query.minProficiency[1]
      limit          == IF query.limit = None THEN DiscoverLimitDefault ELSE query.limit[1]
      values == [i \in 1..Len(state.agentKeys) |-> state.agents[state.agentKeys[i]]]
      Public(a) == a.visibility = "public"
      HasStatus(a) == a.status = query.status
      agents == IF TruthyStr(query.status) THEN SelectSeq(SelectSeq(values, Public), HasStatus)
                ELSE SelectSeq(values, Public)
      Hit(cap) == Includes(capabilities, cap.name) /\ cap.proficiency >= minProficiency
      Result(agent) ==
        LET matched == SelectSeq(agent.capabilities, Hit)
        IN [id |-> agent.id, name |-> agent.name, description |-> agent.description,
            status |-> agent.status, protocol |-> agent.protocol,
            matchedCapabilities |-> [i \in 1..Len(matched) |-> matched[i].name],
            matchScore |-> IF Len(capabilities) > 0
                           THEN Quotient(SumProficiency(matched), Len(capabilities))
                           ELSE IF Len(matched) > 0 THEN Quotient(Half, 1)
                                ELSE [num |-> 0, den |-> 1],
            reputation |-> IF Has(state.reputation, agent.id)
                           THEN Some(state.reputation[agent.id]) ELSE JsNull]
      Matched(r) == Len(capabilities) = 0 \/ Len(r.matchedCapabilities) > 0
      filtered == SortByScore(<< >>,
                    SelectSeq([i \in 1..Len(agents) |-> Result(agents[i])], Matched))
  IN [agents |-> SubSeq(filtered, 1, Min(limit, Len(filtered))), total |-> Len(filtered)]

GetAgentsLimitDefault == 50

\* Object.values(state.agents)
AgentValues(state) == [i \in 1..Len(state.agentKeys) |-> state.agents[state.agentKeys[i]]]

\* what get_agents returns
Listed(state, params, agents) ==
  LET limit == IF params.limit = None THEN GetAgentsLimitDefault ELSE params.limit[1]
      HasStatus(a) == a.status = params.status
      filtered == IF TruthyStr(params.status) THEN SelectSeq(agents, HasStatus) ELSE agents
  IN SubSeq(filtered, 1, Min(limit, Len(filtered)))

\* Mutant: the visibility filter is missing.
get_agents_unfiltered(state, params) ==
  [result |-> Listed(state, params, AgentValues(state)), old |-> state]

\* readers.get_agents(state, params)
get_agents(state, params) ==
  LET IsPublic(a) == a.visibility = "public"
  IN [result |-> Listed(state, params, SelectSeq(AgentValues(state), IsPublic)), old |-> state]

\* ------------------------------------------------------------------ machine
\* state   : the view the host holds (what the last handler returned)
\* event   : the type of the _event key of that object
\* genesis : what module.exports.state, the object the first command was
\*           given, reads as now
\* aliased : the fields of the view that are still genesis' own objects
\* now     : the host's logical clock, the timestamp of the next command
\* last    : the last command's name and outcome
\* ncmds   : the number of commands delivered
\* answer  : what the last call of a reader returned
\* settled : the ids of the requests that have had a status other than pending
\* joined  : the (channel, signer) pairs whose last channel command that
\*           returned was a join
\* log, phase, pos, firstView : the command stream of a replay, which replay
\*           is running, the next command of the second replay and the view
\*           the first replay ended in
VARIABLES state, event, genesis, aliased, now, last, ncmds, settled, joined, answer, log, phase,
          pos, firstView

\* The IntercomClient object and the sockets it has created.
\* ws             : this.ws, the number of a socket, or 0 for null
\* sockets        : the WebSocket objects created so far: readyState, sent
\*                  (what the client transmitted on it), authed (a successful
\*                  auth_response has been handled on it)
\* _state         : this._state
\* reconnectTimer : this.reconnectTimer is set (the timeout is pending)
\* heartbeatTimer : this.heartbeatTimer, the number of an interval, or 0
\* intervals      : the intervals that are active (an interval carries the
\*                  number of the socket whose onopen started it)
\* messageQueue   : this.messageQueue
\* flushing       : handleAuthResponse is in its while loop
\* flushStart     : the queue when that loop was entered
\* turn           : the parity of the number of turns the loop has taken
\* closedByUser   : disconnect() was called and connect() not since
\* nsends, nbeats : the numbers of send() calls and of heartbeat ticks
VARIABLES ws, sockets, _state, reconnectTimer, heartbeatTimer, intervals, messageQueue,
          flushing, flushStart, turn, closedByUser, nsends, nbeats

viewVars   == <<state, event, genesis, aliased, last, ncmds, settled, joined, answer>>
replayVars == <<log, phase, pos, firstView>>
clientVars == <<ws, sockets, _state, reconnectTimer, heartbeatTimer, intervals, messageQueue,
                flushing, flushStart, turn, closedByUser, nsends, nbeats>>
vars       == <<state, event, genesis, aliased, now, last, ncmds, settled, joined, answer, log, phase,
                pos, firstView, clientVars>>

\* ------------------------------------------------------------------ bounds
MaxCmds == 4
MaxTick == 1
TtlMin  == 60

\* The clock values: a request created at 0 with the shortest ttl expires at
\* TtlMin * 1000, the first value after 0.
Times == {0} \cup {TtlMin * MsPerSecond + k : k \in 0..MaxTick}

Channels == {"match-room"}

CapX == [name |-> "x", proficiency |-> Some(9), certified |-> None]
CapY == [name |-> "y", proficiency |-> None, certified |-> Some(TRUE)]

\* two profiles, under different names and with different capability lists
RegisterPayloads ==
  {[name |-> "alpha", description |-> Undef, capabilities |-> Some(<<CapX>>),
    protocol |-> Undef, visibility |-> Undef, endpoint |-> Undef],
   [name |-> "beta", description |-> Undef, capabilities |-> Some(<<CapX, CapY>>),
    protocol |-> Undef, visibility |-> Undef, endpoint |-> Undef]}

\* an update of the status and the capabilities, and one of the other fields
UpdatePayloads ==
  {[status |-> "busy", capabilities |-> Some(<<CapY>>), visibility |-> Undef,
    endpoint |-> Undef],
   [status |-> Undef, capabilities |-> None, visibility |-> "private",
    endpoint |-> "tcp://e"]}

CreatePayloads ==
  [requiredCapabilities : {Some(<< >>), Some(<<"x">>)}, minScore : {Some(8)},
   taskDescription : {Undef}, ttl : {Some(TtlMin)}, preferredProtocols : {None}]

\* the ids a payload may name: every stored request and one that is not stored
GhostMatch == <<"match", "cccccccc", 0>>
MatchIds   == (DOMAIN state.matchRequests) \cup {GhostMatch}

ProposePayloads ==
  [matchId : MatchIds, score : {3, 9}, matchedCapabilities : {<<"x">>}]

AcceptPayloads == [matchId : MatchIds, proposerId : Writers]

\* no outcome given, a rating alone, and a failure with another rating
CompletePayloads ==
  [matchId : MatchIds, success : {None}, rating : {None, Some(4)}, feedback : {Undef}]
  \cup [matchId : MatchIds, success : {Some(FALSE)}, rating : {Some(5)}, feedback : {Undef}]

ChannelPayloads == [channelId : Channels]

\* The commands the host may deliver now: handlers[op], a payload and the
\* context {writer, timestamp} with the clock's time.
Ops == {"agent_register", "agent_update", "agent_unregister", "match_create",
        "match_propose", "match_accept", "match_complete", "channel_join",
        "channel_leave", "message_record"}

Payloads(op) ==
  CASE op = "agent_register"   -> RegisterPayloads
    [] op = "agent_update"     -> UpdatePayloads
    [] op = "agent_unregister" -> {EmptyMap}
    [] op = "match_create"     -> CreatePayloads
    [] op = "match_propose"    -> ProposePayloads
    [] op = "match_accept"     -> AcceptPayloads
    [] op = "match_complete"   -> CompletePayloads
    [] op = "channel_join"     -> ChannelPayloads
    [] op = "channel_leave"    -> ChannelPayloads
    [] op = "message_record"   -> {EmptyMap}

CommandsAt(op, times) ==
  [op : {op}, payload : Payloads(op), context : [writer : Writers, timestamp : times]]

Commands(op) == CommandsAt(op, {now})

\* handlers[c.op](state, c.payload, c.context) on the present view
Run(c) == handlers(c.op, state, c.payload, c.context)

\* ------------------------------------------------------------------ actions
Init ==
  /\ state = InitialState
  /\ event = Undef
  /\ genesis = InitialState
  /\ aliased = Fields
  /\ now = 0
  /\ last = [op |-> "none", err |-> Ok]
  /\ ncmds = 0
  /\ settled = {}
  /\ joined = {}
  /\ answer = [agents |-> << >>, total |-> 0]
  /\ log = << >>
  /\ phase = "first"
  /\ pos = 1
  /\ firstView = InitialState
  /\ ws = 0
  /\ sockets = << >>
  /\ _state = "disconnected"
  /\ reconnectTimer = FALSE
  /\ heartbeatTimer = 0
  /\ intervals = {}
  /\ messageQueue = << >>
  /\ flushing = FALSE
  /\ flushStart = << >>
  /\ turn = 0
  /\ closedByUser = FALSE
  /\ nsends = 0
  /\ nbeats = 0

\* What an older object, which shares the fields in `shared` with the given
\* state, reads as after a handler ran on the given state: a shared map is the
\* given state's map; an index array it holds is the given state's array of
\* that name even when the map itself was copied.
Seen(older, shared, res) ==
  [older EXCEPT
     !.agents          = IF "agents" \in shared THEN res.old.agents ELSE @,
     !.agentKeys       = IF "agents" \in shared THEN res.old.agentKeys ELSE @,
     !.capabilityIndex = IF "capabilityIndex" \in shared THEN res.old.capabilityIndex
                         ELSE [n \in DOMAIN @ |-> res.old.capabilityIndex[n]]]

\* the ids of the requests of view s whose status is not pending
NotPending(s) == {m \in DOMAIN s.matchRequests : s.matchRequests[m].status # "pending"}

\* The (channel, signer) pairs after command c returned res: a join that
\* returned adds its pair, a leave that returned removes it.
Joined(pairs, c, res) ==
  IF res.err = Ok /\ c.op = "channel_join"
  THEN pairs \cup {<<c.payload.channelId, c.context.writer>>}
  ELSE IF res.err = Ok /\ c.op = "channel_leave"
       THEN pairs \ {<<c.payload.channelId, c.context.writer>>}
       ELSE pairs

\* The host delivers one command, the (ncmds + 1)-th of at most max: the
\* handler runs on the view; what it returns is the next view, and when it
\* throws the host is left with the object it passed in.
DeliverWithin(c, max) ==
  LET res == Run(c)
      view == IF res.err = Ok THEN res.state ELSE res.old
  IN /\ ncmds < max
     /\ state'   = view
     /\ settled' = settled \cup NotPending(view)
     /\ joined'  = Joined(joined, c, res)
     /\ event'   = IF res.err = Ok /\ res.event # Undef THEN res.event ELSE event
     /\ genesis' = Seen(genesis, aliased, res)
     /\ aliased' = IF res.err = Ok THEN aliased \cap res.kept ELSE aliased
     /\ last'    = [op |-> c.op, err |-> res.err]
     /\ ncmds'   = ncmds + 1
     /\ UNCHANGED <<now, answer, clientVars>>

Deliver(c) == DeliverWithin(c, MaxCmds)

AgentRegister ==
  /\ \E c \in Commands("agent_register") : Deliver(c)
  /\ UNCHANGED replayVars

AgentUpdate ==
  /\ \E c \in Commands("agent_update") : Deliver(c)
  /\ UNCHANGED replayVars

AgentUnregister ==
  /\ \E c \in Commands("agent_unregister") : Deliver(c)
  /\ UNCHANGED replayVars

MatchCreate ==
  /\ \E c \in Commands("match_create") : Deliver(c)
  /\ UNCHANGED replayVars

MatchPropose ==
  /\ \E c \in Commands("match_propose") : Deliver(c)
  /\ UNCHANGED replayVars

MatchAccept ==
  /\ \E c \in Commands("match_accept") : Deliver(c)
  /\ UNCHANGED replayVars

MatchComplete ==
  /\ \E c \in Commands("match_complete") : Deliver(c)
  /\ UNCHANGED replayVars

ChannelJoin ==
  /\ \E c \in Commands("channel_join") : Deliver(c)
  /\ UNCHANGED replayVars

ChannelLeave ==
  /\ \E c \in Commands("channel_leave") : Deliver(c)
  /\ UNCHANGED replayVars

MessageRecord ==
  /\ \E c \in Commands("message_record") : Deliver(c)
  /\ UNCHANGED replayVars

\* The clock moves on between two commands.
Tick ==
  /\ \E t \in Times : t > now /\ (\A u \in Times : u > now => t <= u) /\ now' = t
  /\ UNCHANGED <<viewVars, replayVars, clientVars>>

Next ==
  \/ AgentRegister
  \/ AgentUpdate
  \/ AgentUnregister
  \/ MatchCreate
  \/ MatchPropose
  \/ MatchAccept
  \/ MatchComplete
  \/ ChannelJoin
  \/ ChannelLeave
  \/ MessageRecord
  \/ Tick

Spec == Init /\ [][Next]_vars

\* ------------------------------------------------------------------ replay
\* Two replays of one command stream in one process, each started from
\* module.exports.state: the first records the stream as it is delivered, the
\* second is given the same commands in the same order.
MaxLog == 2

Submit ==
  /\ phase = "first"
  /\ Len(log) < MaxLog
  /\ \E op \in Ops : \E c \in Commands(op) : Deliver(c) /\ log' = Append(log, c)
  /\ UNCHANGED <<phase, pos, firstView>>

\* the second replay starts: the host takes module.exports.state again
Restart ==
  /\ phase = "first"
  /\ phase' = "second"
  /\ firstView' = state
  /\ state' = genesis
  /\ aliased' = Fields
  /\ event' = Undef
  /\ last' = [op |-> "none", err |-> Ok]
  /\ ncmds' = 0
  /\ settled' = {}
  /\ joined' = {}
  /\ pos' = 1
  /\ UNCHANGED <<genesis, now, answer, log, clientVars>>

Resubmit ==
  /\ phase = "second"
  /\ pos <= Len(log)
  /\ Deliver(log[pos])
  /\ pos' = pos + 1
  /\ UNCHANGED <<log, phase, firstView>>

NextReplay ==
  \/ Submit
  \/ Restart
  \/ Resubmit

SpecReplay == Init /\ [][NextReplay]_vars

\* ------------------------------------------------------------------ lifecycle
\* The commands of a match's lifecycle alone, at one clock value, in longer
\* runs: registration, request, proposal, acceptance and completion.
MaxLifecycle == 6

LifecycleRegister ==
  /\ \E c \in Commands("agent_register") : DeliverWithin(c, MaxLifecycle)
  /\ UNCHANGED replayVars

LifecycleCreate ==
  /\ \E c \in Commands("match_create") : DeliverWithin(c, MaxLifecycle)
  /\ UNCHANGED replayVars

LifecyclePropose ==
  /\ \E c \in Commands("match_propose") : DeliverWithin(c, MaxLifecycle)
  /\ UNCHANGED replayVars

LifecycleAccept ==
  /\ \E c \in Commands("match_accept") : DeliverWithin(c, MaxLifecycle)
  /\ UNCHANGED replayVars

LifecycleComplete ==
  /\ \E c \in Commands("match_complete") : DeliverWithin(c, MaxLifecycle)
  /\ UNCHANGED replayVars

NextLifecycle ==
  \/ LifecycleRegister
  \/ LifecycleCreate
  \/ LifecyclePropose
  \/ LifecycleAccept
  \/ LifecycleComplete

SpecLifecycle == Init /\ [][NextLifecycle]_vars

\* ------------------------------------------------------------------ directory
\* The agent directory and its reader: registrations, updates and
\* unregistrations, and discover queries on the view they leave.
MaxDirectory == 4

\* the queries: no capability list, an empty one, one name, two names; the
\* default threshold, 0.5 and 0.95 rounded to 1; any status or busy; the
\* default limit or 1
Queries ==
  [capabilities : {None, Some(<< >>), Some(<<"x">>), Some(<<"x", "y">>)},
   minProficiency : {None, Some(Half), Some(One)},
   status : {Undef, "busy"},
   limit : {None, Some(1)}]

DirectoryRegister ==
  /\ \E c \in Commands("agent_register") : DeliverWithin(c, MaxDirectory)
  /\ UNCHANGED replayVars

DirectoryUpdate ==
  /\ \E c \in Commands("agent_update") : DeliverWithin(c, MaxDirectory)
  /\ UNCHANGED replayVars

DirectoryUnregister ==
  /\ \E c \in Commands("agent_unregister") : DeliverWithin(c, MaxDirectory)
  /\ UNCHANGED replayVars

\* A client calls the reader on the view the host holds.
Discover ==
  /\ \E q \in Queries :
        LET res == discover(state, q)
        IN /\ answer'  = res.result
           /\ state'   = res.old
           /\ genesis' = Seen(genesis, aliased, res)
  /\ last' = [op |-> "discover", err |-> Ok]
  /\ UNCHANGED <<event, aliased, now, ncmds, settled, joined, replayVars, clientVars>>

\* the get_agents queries: any status or busy, the default limit or 1
AgentQueries == [status : {Undef, "busy"}, limit : {None, Some(1)}]

GetAgents ==
  /\ \E q \in AgentQueries :
        LET res == get_agents(state, q)
        IN /\ answer'  = res.result
           /\ state'   = res.old
           /\ genesis' = Seen(genesis, aliased, res)
  /\ last' = [op |-> "get_agents", err |-> Ok]
  /\ UNCHANGED <<event, aliased, now, ncmds, settled, joined, replayVars, clientVars>>

NextDirectory ==
  \/ DirectoryRegister
  \/ DirectoryUpdate
  \/ DirectoryUnregister
  \/ Discover
  \/ GetAgents

SpecDirectory == Init /\ [][NextDirectory]_vars

\* ---------------------------------------------------------------- channels
\* Agents come and go and join and leave two channels.
MaxChannel == 5

Rooms == {"match-room", "lobby"}

RoomCommands(op) ==
  [op : {op}, payload : [channelId : Rooms], context : [writer : Writers, timestamp : {now}]]

RoomRegister ==
  /\ \E c \in Commands("agent_register") : DeliverWithin(c, MaxChannel)
  /\ UNCHANGED replayVars

RoomUnregister ==
  /\ \E c \in Commands("agent_unregister") : DeliverWithin(c, MaxChannel)
  /\ UNCHANGED replayVars

RoomJoin ==
  /\ \E c \in RoomCommands("channel_join") : DeliverWithin(c, MaxChannel)
  /\ UNCHANGED replayVars

RoomLeave ==
  /\ \E c \in RoomCommands("channel_leave") : DeliverWithin(c, MaxChannel)
  /\ UNCHANGED replayVars

NextChannels ==
  \/ RoomRegister
  \/ RoomUnregister
  \/ RoomJoin
  \/ RoomLeave

SpecChannels == Init /\ [][NextChannels]_vars

\* ------------------------------------------------------------------ client
\* IntercomClient: one client object, the sockets it creates, its timers and
\* the events the environment delivers to the handlers it installed.
MaxSockets == 2
MaxSends   == 2
MaxBeats   == 2

contractVars == <<state, event, genesis, aliased, now, ncmds, settled, joined, answer, log,
                  phase, pos, firstView>>

AuthRequest    == [type |-> "auth_request", n |-> 0]
Heartbeat      == [type |-> "heartbeat", n |-> 0]
UserMessage(k) == [type |-> "sidechannel_message", n |-> k]

\* new WebSocket(url)
NewSocket == [readyState |-> "CONNECTING", sent |-> << >>, authed |-> FALSE]

\* this.ws is a socket whose readyState is OPEN
IsOpen(socks, w) == w # 0 /\ socks[w].readyState = "OPEN"

\* send(message) with this.ws = w: the sockets and the queue afterwards
send(socks, queue, w, message) ==
  IF ~IsOpen(socks, w)
  THEN [sockets |-> socks, messageQueue |-> Append(queue, message)]
  ELSE [sockets |-> [socks EXCEPT ![w].sent = Append(@, message)], messageQueue |-> queue]

\* connect(): setState('connecting'); this.ws = new WebSocket(this.url)
connect ==
  /\ Len(sockets) < MaxSockets
  /\ _state' = "connecting"
  /\ sockets' = Append(sockets, NewSocket)
  /\ ws' = Len(sockets) + 1

\* the application calls connect()
Connect ==
  /\ ~flushing
  /\ connect
  /\ closedByUser' = FALSE
  /\ last' = [op |-> "connect", err |-> Ok]
  /\ UNCHANGED <<reconnectTimer, heartbeatTimer, intervals, messageQueue, flushing, flushStart,
                 nsends, nbeats, turn, contractVars>>

\* the application calls disconnect()
Disconnect ==
  /\ ~flushing
  /\ reconnectTimer' = FALSE
  /\ intervals' = IF heartbeatTimer # 0 THEN intervals \ {heartbeatTimer} ELSE intervals
  /\ heartbeatTimer' = 0
  /\ sockets' = IF ws # 0 /\ sockets[ws].readyState \in {"CONNECTING", "OPEN"}
                THEN [sockets EXCEPT ![ws].readyState = "CLOSING"]
                ELSE sockets
  /\ ws' = 0
  /\ _state' = "disconnected"
  /\ closedByUser' = TRUE
  /\ last' = [op |-> "disconnect", err |-> Ok]
  /\ UNCHANGED <<messageQueue, flushing, flushStart, nsends, nbeats, turn, contractVars>>

\* socket s opens: its onopen runs authenticate() and startHeartbeat()
SocketOpen ==
  /\ ~flushing
  /\ \E s \in 1..Len(sockets) :
        /\ sockets[s].readyState = "CONNECTING"
        /\ LET opened == [sockets EXCEPT ![s].readyState = "OPEN"]
               r == send(opened, messageQueue, ws, AuthRequest)
           IN /\ sockets' = r.sockets
              /\ messageQueue' = r.messageQueue
        /\ heartbeatTimer' = s
        /\ intervals' = intervals \cup {s}
  /\ last' = [op |-> "onopen", err |-> Ok]
  /\ UNCHANGED <<ws, _state, reconnectTimer, flushing, flushStart, closedByUser, nsends, nbeats,
                 turn, contractVars>>

\* socket s fails: its onerror runs setState('error'); its close event follows
SocketError ==
  /\ ~flushing
  /\ \E s \in 1..Len(sockets) :
        /\ sockets[s].readyState \in {"CONNECTING", "OPEN"}
        /\ sockets' = [sockets EXCEPT ![s].readyState = "FAILED"]
  /\ _state' = "error"
  /\ last' = [op |-> "onerror", err |-> Ok]
  /\ UNCHANGED <<ws, reconnectTimer, heartbeatTimer, intervals, messageQueue, flushing,
                 flushStart, closedByUser, nsends, nbeats, turn, contractVars>>

\* the close event of socket s: its onclose runs setState('disconnected') and
\* scheduleReconnect()
SocketClose ==
  /\ ~flushing
  /\ \E s \in 1..Len(sockets) :
        /\ sockets[s].readyState \in {"OPEN", "CLOSING", "FAILED"}
        /\ sockets' = [sockets EXCEPT ![s].readyState = "CLOSED"]
  /\ _state' = "disconnected"
  /\ reconnectTimer' = TRUE
  /\ last' = [op |-> "onclose", err |-> Ok]
  /\ UNCHANGED <<ws, heartbeatTimer, intervals, messageQueue, flushing, flushStart,
                 closedByUser, nsends, nbeats, turn, contractVars>>

\* the reconnect timeout fires: this.reconnectTimer = null; this.connect()
ReconnectFire ==
  /\ ~flushing
  /\ reconnectTimer
  /\ reconnectTimer' = FALSE
  /\ connect
  /\ last' = [op |-> "reconnect", err |-> Ok]
  /\ UNCHANGED <<heartbeatTimer, intervals, messageQueue, flushing, flushStart, closedByUser,
                 nsends, nbeats, turn, contractVars>>

\* an active heartbeat interval ticks: send({type: 'heartbeat'})
HeartbeatFire ==
  /\ ~flushing
  /\ nbeats < MaxBeats
  /\ intervals # {}
  /\ LET r == send(sockets, messageQueue, ws, Heartbeat)
     IN /\ sockets' = r.sockets
        /\ messageQueue' = r.messageQueue
  /\ nbeats' = nbeats + 1
  /\ last' = [op |-> "heartbeat", err |-> Ok]
  /\ UNCHANGED <<ws, _state, reconnectTimer, heartbeatTimer, intervals, flushing, flushStart,
                 closedByUser, nsends, turn, contractVars>>

\* the application calls send(message) (or one of the operations that do)
Send ==
  /\ ~flushing
  /\ nsends < MaxSends
  /\ LET r == send(sockets, messageQueue, ws, UserMessage(nsends + 1))
     IN /\ sockets' = r.sockets
        /\ messageQueue' = r.messageQueue
  /\ nsends' = nsends + 1
  /\ last' = [op |-> "send", err |-> Ok]
  /\ UNCHANGED <<ws, _state, reconnectTimer, heartbeatTimer, intervals, flushing, flushStart,
                 closedByUser, nbeats, turn, contractVars>>

\* an auth_response arrives on the open socket s: handleAuthResponse up to
\* its while loop
AuthResponse ==
  /\ ~flushing
  /\ \E s \in 1..Len(sockets) : \E success \in BOOLEAN :
        /\ sockets[s].readyState = "OPEN"
        /\ IF success
           THEN /\ _state' = "connected"
                /\ sockets' = [sockets EXCEPT ![s].authed = TRUE]
                /\ flushing' = (Len(messageQueue) > 0)
                /\ flushStart' = messageQueue
                /\ turn' = 0
                /\ last' = [op |-> "auth_response", err |-> Ok]
           ELSE /\ _state' = "error"
                /\ last' = [op |-> "auth_response", err |-> "Authentication failed"]
                /\ UNCHANGED <<sockets, flushing, flushStart, turn>>
  /\ UNCHANGED <<ws, reconnectTimer, heartbeatTimer, intervals, messageQueue, closedByUser,
                 nsends, nbeats, contractVars>>

\* one turn of while (this.messageQueue.length > 0) { msg = shift(); send(msg) };
\* nothing else runs before the loop is left
FlushStep ==
  /\ flushing
  /\ LET r == send(sockets, Tail(messageQueue), ws, Head(messageQueue))
     IN /\ sockets' = r.sockets
        /\ messageQueue' = r.messageQueue
        /\ flushing' = (Len(r.messageQueue) > 0)
        /\ turn' = IF Len(r.messageQueue) > 0 THEN 1 - turn ELSE 0
  /\ last' = [op |-> "flush", err |-> Ok]
  /\ UNCHANGED <<ws, _state, reconnectTimer, heartbeatTimer, intervals, flushStart,
                 closedByUser, nsends, nbeats, contractVars>>

NextClient ==
  \/ Connect
  \/ Disconnect
  \/ SocketOpen
  \/ SocketError
  \/ SocketClose
  \/ ReconnectFire
  \/ HeartbeatFire
  \/ Send
  \/ AuthResponse
  \/ FlushStep

SpecClient == Init /\ [][NextClient]_vars

\* the while loop is a loop of the program: a turn that can be taken is taken
SpecClientFair == SpecClient /\ WF_vars(FlushStep)

\* ------------------------------------------------------------------ claims
CapNames == {"x", "y"}

\* agent id A is listed under capability name C in the index of view s
Indexed(s, A, C) == Has(s.capabilityIndex, C) /\ Includes(s.capabilityIndex[C], A)

\* an Agent entry A exists in view s and one of its capabilities is named C
Capable(s, A, C) ==
  Has(s.agents, A) /\ \E i \in 1..Len(s.agents[A].capabilities) : s.agents[A].capabilities[i].name = C

\* C1. Index consistency: in every state reached by register / update /
\* unregister commands (a signer registering again under a new name
\* included), agent A is listed in capabilityIndex[C] exactly when an Agent
\* entry A exists and has a capability named C.
C1_IndexConsistency ==
  \A A \in Writers, C \in CapNames : Indexed(state, A, C) <=> Capable(state, A, C)

\* C2. Lifecycle guard: once match_accept has succeeded on a request, another
\* match_accept on it signed by the requester (same or another proposerId)
\* fails with RequestNotPending and changes nothing.
C2_SecondAcceptFails ==
  \A c \in Commands("match_accept") :
     LET m == c.payload.matchId
     IN (Has(state.matchRequests, m)
         /\ state.matchRequests[m].status = "accepted"
         /\ c.context.writer = state.matchRequests[m].requesterId)
        => LET r == Run(c)
           IN r.err = RequestNotPending /\ r.state = state /\ r.old = state

\* C3. Atomic reject: whenever a handler fails with a precondition error, the
\* object the host passed in (every part of the view) and the contract's
\* initial state object read exactly as before the command.
C3_AtomicReject ==
  \A op \in Ops : \A c \in Commands(op) :
     LET r == Run(c)
     IN r.err # Ok => (r.old = state /\ Seen(genesis, aliased, r) = genesis)

\* a proposal by an unregistered signer on a pending request was rejected (the
\* last of match_propose's four checks) while the view holds a request
C3_Witness ==
  /\ last = [op |-> "match_propose", err |-> ProposerNotRegistered]
  /\ DOMAIN state.matchRequests # {}

\* C4. Determinism: the second of two replays of one command stream, each
\* started from the contract's initial state, ends in the view the first
\* replay ended in.
C4_Determinism ==
  (phase = "second" /\ pos > Len(log)) => state = firstView

\* C5. Completed is terminal: on a request whose status is completed, every
\* match_propose, match_accept and match_complete, by any signer, fails and
\* leaves the request (status and outcome fields) as it is.
C5_CompletedTerminal ==
  \A op \in {"match_propose", "match_accept", "match_complete"} :
     \A c \in Commands(op) :
        LET m == c.payload.matchId
        IN (Has(state.matchRequests, m) /\ state.matchRequests[m].status = "completed")
           => LET r == Run(c)
              IN r.err # Ok /\ r.state.matchRequests[m] = state.matchRequests[m]

StatusOf(s, m) == IF Has(s.matchRequests, m) THEN s.matchRequests[m].status ELSE "none"

\* C6. A request's status moves along pending -> accepted -> completed: a
\* step that makes a request completed starts from a state in which that
\* request is accepted (match_complete on a pending request does not complete it).
C6_CompletedOnlyFromAccepted ==
  [][\A m \in DOMAIN state'.matchRequests :
       (StatusOf(state', m) = "completed" /\ StatusOf(state, m) # "completed")
         => StatusOf(state, m) = "accepted"]_vars

\* an Agent entry of view s carries the name
NameHeld(s, name) == \E id \in DOMAIN s.agents : s.agents[id].name = name

\* C7. Name uniqueness: no two Agent entries have the same name, and
\* agent_register with a name some agent holds fails with DuplicateName and
\* leaves the view unchanged.
C7_NameUniqueness ==
  /\ \A a, b \in DOMAIN state.agents :
        a # b => state.agents[a].name # state.agents[b].name
  /\ \A c \in Commands("agent_register") :
        NameHeld(state, c.payload.name)
          => LET r == Run(c)
             IN r.err = DuplicateName /\ r.old = state /\ r.state = state

\* two agents are registered and a registration under a held name was rejected
C7_Witness ==
  /\ last = [op |-> "agent_register", err |-> DuplicateName]
  /\ Cardinality(DOMAIN state.agents) = 2

AcceptedWith(s, m) ==
  IF Has(s.matchRequests, m) /\ "acceptedWith" \in DOMAIN s.matchRequests[m]
  THEN s.matchRequests[m].acceptedWith ELSE Undef

\* C8. Only the requester accepts: match_accept signed by anyone but the
\* request's requesterId fails with Unauthorized and changes nothing; and a
\* command that gives a request the status accepted, or a new acceptedWith,
\* is a match_accept signed by that request's requesterId.
C8_OnlyRequesterAccepts ==
  /\ \A c \in Commands("match_accept") :
        LET m == c.payload.matchId
            r == Run(c)
        IN (Has(state.matchRequests, m)
            /\ c.context.writer # state.matchRequests[m].requesterId)
           => (r.err = Unauthorized /\ r.old = state /\ r.state = state)
  /\ \A op \in Ops : \A c \in Commands(op) :
        LET r == Run(c)
        IN \A m \in DOMAIN r.state.matchRequests :
              (\/ (StatusOf(r.state, m) = "accepted" /\ StatusOf(state, m) # "accepted")
               \/ AcceptedWith(r.state, m) \notin {Undef, AcceptedWith(state, m)})
              => (op = "match_accept"
                  /\ c.context.writer = r.state.matchRequests[m].requesterId)

\* a signer who is not the requester tried to accept a stored proposal
C8_Witness ==
  /\ last = [op |-> "match_accept", err |-> Unauthorized]
  /\ DOMAIN state.matchProposals # {}

\* C9. Expiry: for a stored request, match_propose fails with RequestExpired
\* exactly when the command's timestamp is greater than the request's
\* expiresAt, and a proposal rejected as expired leaves matchProposals (and
\* the rest of the view) unchanged.
C9_Expiry ==
  \A c \in CommandsAt("match_propose", Times) :
     LET m == c.payload.matchId
         r == Run(c)
     IN Has(state.matchRequests, m)
        => /\ (r.err = RequestExpired)
                <=> (c.context.timestamp > state.matchRequests[m].expiresAt)
           /\ r.err = RequestExpired
                => (r.state.matchProposals = state.matchProposals /\ r.old = state)

\* a proposal was stored at the very deadline of its request, and a later one
\* was rejected as expired
C9_Witness ==
  /\ last = [op |-> "match_propose", err |-> RequestExpired]
  /\ \E k \in DOMAIN state.matchProposals :
        /\ Has(state.matchRequests, k[1])
        /\ state.matchProposals[k].proposedAt = state.matchRequests[k[1]].expiresAt

\* what a proposal says (everything but its status)
Bid(p) == [f \in (DOMAIN p) \ {"status"} |-> p[f]]

\* Each single step writes proposals as match_propose's checks allow: an
\* entry that is new, or says something else than before, was written by a
\* successful match_propose on a stored, pending, unexpired request by a
\* signer with an Agent entry; every entry sits under the key of its own
\* (matchId, proposerId) pair; and for a request that is not pending at the
\* step no entry is added and no entry's score changes.
ProposalsOnlyByPropose ==
  [][/\ \A k \in DOMAIN state'.matchProposals :
          (k \notin DOMAIN state.matchProposals
           \/ Bid(state'.matchProposals[k]) # Bid(state.matchProposals[k]))
          => /\ last' = [op |-> "match_propose", err |-> Ok]
             /\ StatusOf(state, k[1]) = "pending"
             /\ now <= state.matchRequests[k[1]].expiresAt
             /\ Has(state.agents, k[2])
     /\ \A k \in DOMAIN state'.matchProposals :
          k = ProposalKey(state'.matchProposals[k].matchId, state'.matchProposals[k].proposerId)
     /\ \A k \in DOMAIN state'.matchProposals :
          StatusOf(state, k[1]) # "pending"
          => /\ k \in DOMAIN state.matchProposals
             /\ state'.matchProposals[k].score = state.matchProposals[k].score]_vars

\* C10. Proposals are written only by match_propose on a pending request:
\* once a request has left the status pending, no proposal for it is added
\* and no proposal for it has its score changed, in any later step.
C10_NoProposalOnceSettled ==
  [][\A k \in DOMAIN state'.matchProposals :
       k[1] \in settled
         => /\ k \in DOMAIN state.matchProposals
            /\ state'.matchProposals[k].score = state.matchProposals[k].score]_vars

\* the number of the two parties' roles (requester R, proposer P) agent X has
Roles(X, R, P) == (IF X = R THEN 1 ELSE 0) + (IF X = P THEN 1 ELSE 0)

\* C11. A successful match_accept(matchId, P) signed by R makes the request
\* accepted with acceptedWith = P, makes the (matchId, P) proposal accepted,
\* and raises matchCount by 1 for each party's role a registered agent has
\* (by 2 for an agent that is both requester and proposer), leaving every
\* other agent's matchCount as it was.
C11_AcceptCounts ==
  \A c \in Commands("match_accept") :
     LET r == Run(c)
         m == c.payload.matchId
         P == c.payload.proposerId
         R == c.context.writer
     IN r.err = Ok
        => /\ r.state.matchRequests[m].status = "accepted"
           /\ r.state.matchRequests[m].acceptedWith = P
           /\ r.state.matchProposals[ProposalKey(m, P)].status = "accepted"
           /\ DOMAIN r.state.agents = DOMAIN state.agents
           /\ \A X \in DOMAIN state.agents :
                 r.state.agents[X].matchCount = state.agents[X].matchCount + Roles(X, R, P)

\* C12. No self-rating: every rating record stored in reputation[X].ratings
\* has a from other than X (also after a requester accepted its own proposal).
C12_NoSelfRating ==
  \A X \in DOMAIN state.reputation :
     \A i \in 1..Len(state.reputation[X].ratings) :
        state.reputation[X].ratings[i].from # X

\* the rating records of agent X in view s
RatingsOf(s, X) == IF Has(s.reputation, X) THEN s.reputation[X].ratings ELSE << >>

\* the sum of the first n recorded ratings
RECURSIVE RatingTotal(_, _)
RatingTotal(ratings, n) == IF n = 0 THEN 0 ELSE RatingTotal(ratings, n - 1) + ratings[n].rating

\* C13. Reputation aggregate: for every agent id with a reputation entry,
\* totalRatings is the number of records in ratings and averageRating is the
\* sum of the recorded ratings divided by totalRatings; and each successful
\* match_complete that carries a rating, on a request with acceptedWith,
\* appends exactly one record (to one agent's list, the others unchanged).
C13_ReputationAggregate ==
  /\ \A X \in DOMAIN state.reputation :
        LET rep == state.reputation[X]
        IN /\ rep.totalRatings = Len(rep.ratings)
           /\ rep.totalRatings > 0
           /\ rep.averageRating.num * Len(rep.ratings)
                 = RatingTotal(rep.ratings, Len(rep.ratings)) * rep.averageRating.den
  /\ \A c \in Commands("match_complete") :
        LET r == Run(c)
            m == c.payload.matchId
        IN (r.err = Ok /\ c.payload.rating # None /\ AcceptedWith(state, m) # Undef)
           => \E X \in DOMAIN r.state.reputation :
                 /\ Len(RatingsOf(r.state, X)) = Len(RatingsOf(state, X)) + 1
                 /\ SubSeq(RatingsOf(r.state, X), 1, Len(RatingsOf(state, X))) = RatingsOf(state, X)
                 /\ RatingsOf(r.state, X)[Len(RatingsOf(r.state, X))].rating = c.payload.rating[1]
                 /\ \A Y \in (DOMAIN r.state.reputation) \ {X} :
                       Has(state.reputation, Y) /\ r.state.reputation[Y] = state.reputation[Y]

\* an agent holds two rating records of different ratings
C13_Witness ==
  \E X \in DOMAIN state.reputation :
     /\ Len(state.reputation[X].ratings) = 2
     /\ state.reputation[X].ratings[1].rating # state.reputation[X].ratings[2].rating

\* C14. Counters are monotone: for every command of every type (a repeated
\* agent_register by the same signer included) and every agent id with an
\* Agent entry before and after it, matchCount and successCount after the
\* command are at least what they were before.
C14_CountersMonotone ==
  \A op \in Ops : \A c \in Commands(op) :
     LET r == Run(c)
     IN \A X \in (DOMAIN state.agents) \cap (DOMAIN r.state.agents) :
           /\ r.state.agents[X].matchCount >= state.agents[X].matchCount
           /\ r.state.agents[X].successCount >= state.agents[X].successCount

\* success of a match_complete payload (true when not given)
SuccessOf(payload) == IF payload.success = None THEN TRUE ELSE payload.success[1]

\* C15. A successful match_complete raises successCount by exactly 1 on the
\* rated party (the agent whose rating list grew) when success is true, and
\* changes no agent's successCount when success is false; the signer's own
\* successCount and that of every agent other than the rated party are never
\* changed by match_complete.
C15_SuccessCount ==
  \A c \in Commands("match_complete") :
     LET r == Run(c)
         signer == c.context.writer
     IN r.err = Ok
        => /\ DOMAIN r.state.agents = DOMAIN state.agents
           /\ \A X \in DOMAIN state.agents :
                 LET rated == Len(RatingsOf(r.state, X)) > Len(RatingsOf(state, X))
                     delta == r.state.agents[X].successCount - state.agents[X].successCount
                 IN /\ (rated /\ SuccessOf(c.payload)) => delta = 1
                    /\ ~SuccessOf(c.payload) => delta = 0
                    /\ ~rated => delta = 0
                    /\ X = signer => delta = 0

\* C16. agent_unregister by a registered signer removes the signer's Agent
\* entry and its id from every capabilityIndex entry, lowers totalAgents by
\* 1 and leaves matchRequests, matchProposals, channelMembers, reputation and
\* every other agent unchanged; by an unregistered signer it fails with
\* NotRegistered.
C16_Unregister ==
  \A c \in Commands("agent_unregister") :
     LET r == Run(c)
         signer == c.context.writer
     IN IF Has(state.agents, signer)
        THEN /\ r.err = Ok
             /\ DOMAIN r.state.agents = (DOMAIN state.agents) \ {signer}
             /\ \A X \in DOMAIN r.state.agents : r.state.agents[X] = state.agents[X]
             /\ \A C \in DOMAIN r.state.capabilityIndex :
                   ~Includes(r.state.capabilityIndex[C], signer)
             /\ r.state.stats.totalAgents = state.stats.totalAgents - 1
             /\ r.state.matchRequests = state.matchRequests
             /\ r.state.matchProposals = state.matchProposals
             /\ r.state.channelMembers = state.channelMembers
             /\ r.state.reputation = state.reputation
        ELSE r.err = NotRegistered

\* every combination of supplied and omitted fields of an agent_update
\* payload, the empty capability list included
UpdateFieldPayloads ==
  [status : {Undef, "busy"}, capabilities : {None, Some(<< >>), Some(<<CapY>>)},
   visibility : {Undef, "private"}, endpoint : {Undef, "tcp://e"}]

\* the capability names of a list, in order
NamesOf(caps) == [i \in 1..Len(caps) |-> caps[i].name]

\* the fields of an Agent entry that agent_update may not touch
Identity(a) == [f \in {"id", "name", "protocol", "createdAt", "matchCount", "successCount"} |-> a[f]]

\* C17. agent_update replaces, never merges: with capabilities supplied (the
\* empty list included) the agent's capability names afterwards are exactly
\* the supplied ones, the index lists the agent under each of them and under
\* none of the names its previous list had and the new one has not; a field
\* that is not supplied is unchanged; id, name, protocol, createdAt,
\* matchCount and successCount never change, nor does any other agent.
C17_UpdateReplaces ==
  \A payload \in UpdateFieldPayloads : \A signer \in DOMAIN state.agents :
     LET r   == agent_update(state, payload, [writer |-> signer, timestamp |-> now])
         old == state.agents[signer]
         new == r.state.agents[signer]
     IN /\ r.err = Ok
        /\ DOMAIN r.state.agents = DOMAIN state.agents
        /\ \A X \in (DOMAIN state.agents) \ {signer} : r.state.agents[X] = state.agents[X]
        /\ Identity(new) = Identity(old)
        /\ IF payload.capabilities # None
           THEN /\ NamesOf(new.capabilities) = NamesOf(payload.capabilities[1])
                /\ \A C \in CapNames :
                      (\E i \in 1..Len(new.capabilities) : new.capabilities[i].name = C)
                        => Indexed(r.state, signer, C)
                /\ \A C \in CapNames :
                      (/\ \E i \in 1..Len(old.capabilities) : old.capabilities[i].name = C
                       /\ ~\E i \in 1..Len(new.capabilities) : new.capabilities[i].name = C)
                        => ~Indexed(r.state, signer, C)
           ELSE /\ new.capabilities = old.capabilities
                /\ r.state.capabilityIndex = state.capabilityIndex
        /\ payload.status = Undef => new.status = old.status
        /\ payload.visibility = Undef => new.visibility = old.visibility
        /\ payload.endpoint = Undef => new.endpoint = old.endpoint

\* an update has replaced the capability list [x] of a registration by [y]:
\* the agent has y alone and the index lists it under y and not under x
C17_Witness ==
  /\ last = [op |-> "agent_update", err |-> Ok]
  /\ \E X \in DOMAIN state.agents :
        /\ NamesOf(state.agents[X].capabilities) = <<"y">>
        /\ state.agents[X].name = "alpha"
        /\ Indexed(state, X, "y")
        /\ ~Indexed(state, X, "x")

\* supplied proficiencies, in tenths: below 0, 0, inside (0,1), 1 and above 1
Proficiencies == {0 - 5, 0, 3, 10, 15}

\* a capability with a supplied proficiency
CapWith(p) == [name |-> "x", proficiency |-> Some(p), certified |-> None]

\* C18. Proficiency clamp: a capability written by agent_register or
\* agent_update with a supplied numeric proficiency p is stored with
\* max(0, min(1, p)); every p in [0,1], p = 0 included, is stored unchanged.
C18_ProficiencyClamp ==
  \A p \in Proficiencies : \A signer \in Writers :
     LET context    == [writer |-> signer, timestamp |-> now]
         expected   == IF p < 0 THEN 0 ELSE IF p > One THEN One ELSE p
         registered == agent_register(state,
                          [name |-> "gamma", description |-> Undef,
                           capabilities |-> Some(<<CapWith(p)>>), protocol |-> Undef,
                           visibility |-> Undef, endpoint |-> Undef], context)
         updated    == agent_update(state,
                          [status |-> Undef, capabilities |-> Some(<<CapWith(p)>>),
                           visibility |-> Undef, endpoint |-> Undef], context)
     IN /\ registered.err = Ok
        /\ registered.state.agents[signer].capabilities[1].proficiency = expected
        /\ Has(state.agents, signer)
             => /\ updated.err = Ok
                /\ updated.state.agents[signer].capabilities[1].proficiency = expected

\* C19. Transitions do not mutate their input view: after every successful
\* command the object the handler was given (its agents map, capabilityIndex
\* lists, channelMembers lists and reputation entries) reads exactly as
\* before the call; only the returned view differs.
C19_InputNotMutated ==
  \A op \in Ops : \A c \in Commands(op) :
     LET r == Run(c)
     IN r.err = Ok => r.old = state

\* C20. Discovery is read-only: for every view and every query
\* (capabilities, minProficiency, status, limit), the view reads after the
\* call of discover exactly as before it, in every part.
C20_DiscoverReadOnly ==
  \A q \in Queries :
     LET res == discover(state, q)
     IN /\ res.old = state
        /\ Seen(genesis, aliased, res) = genesis

\* discover has answered a query with two agents found, on a view with index
\* entries
C20_Witness ==
  /\ last = [op |-> "discover", err |-> Ok]
  /\ answer.total = 2
  /\ DOMAIN state.capabilityIndex # {}

\* agent X of the view is private and the capability index lists it
PrivateIndexed(s, X) ==
  /\ Has(s.agents, X)
  /\ s.agents[X].visibility = "private"
  /\ \E C \in DOMAIN s.capabilityIndex : Includes(s.capabilityIndex[C], X)

\* C21. Private agents are never discoverable: for every view and every
\* query, every agent in the result of discover and of get_agents has
\* visibility public in the view (also an agent the capability index lists,
\* and one that agent_update switched to private).
C21_PrivateHidden ==
  /\ \A q \in Queries :
        LET found == discover(state, q).result.agents
        IN \A i \in 1..Len(found) :
              Has(state.agents, found[i].id) /\ state.agents[found[i].id].visibility = "public"
  /\ \A q \in AgentQueries :
        LET listed == get_agents(state, q).result
        IN \A i \in 1..Len(listed) :
              /\ listed[i].visibility = "public"
              /\ state.agents[listed[i].id].visibility = "public"

\* a reader has answered with one agent while the view holds a public agent
\* and one that an update made private and that the index still lists
C21_Witness ==
  /\ last.op \in {"discover", "get_agents"}
  /\ Len(IF last.op = "discover" THEN answer.agents ELSE answer) = 1
  /\ \E X \in DOMAIN state.agents : PrivateIndexed(state, X)
  /\ \E X \in DOMAIN state.agents : state.agents[X].visibility = "public"

\* capability i of the list is requested and reaches the threshold
Qualifies(caps, i, names, min) == Includes(names, caps[i].name) /\ caps[i].proficiency >= min

\* the sum of the proficiencies of the first n capabilities that qualify
RECURSIVE QualifyingSum(_, _, _, _)
QualifyingSum(caps, n, names, min) ==
  IF n = 0 THEN 0
  ELSE QualifyingSum(caps, n - 1, names, min)
       + (IF Qualifies(caps, n, names, min) THEN caps[n].proficiency ELSE 0)

\* the threshold of a query (0 when not given)
ThresholdOf(q) == IF q.minProficiency = None THEN 0 ELSE q.minProficiency[1]

\* the entry of agent X in a list of discover results, or none
EntriesOf(found, X) == {i \in 1..Len(found) : found[i].id = X}

\* C22. Discovery score: for a non-empty requested capability list, each
\* returned agent's matchScore is the sum of the proficiencies of its
\* capabilities whose name is requested and whose proficiency is at least
\* minProficiency, divided by the number of requested capabilities; an agent
\* with no such capability is not returned; an agent with x at 0.9 alone is
\* returned with score 0.9 for ([x], 0.5) and not returned for ([x], 1).
C22_DiscoveryScore ==
  /\ \A q \in Queries :
        (q.capabilities # None /\ Len(q.capabilities[1]) > 0)
        => LET names == q.capabilities[1]
               found == discover(state, q).result.agents
           IN /\ \A i \in 1..Len(found) :
                    LET caps == state.agents[found[i].id].capabilities
                    IN /\ found[i].matchScore.num * Len(names)
                            = QualifyingSum(caps, Len(caps), names, ThresholdOf(q))
                              * found[i].matchScore.den
                       /\ \E k \in 1..Len(caps) : Qualifies(caps, k, names, ThresholdOf(q))
              /\ \A X \in DOMAIN state.agents :
                    (~\E k \in 1..Len(state.agents[X].capabilities) :
                         Qualifies(state.agents[X].capabilities, k, names, ThresholdOf(q)))
                    => EntriesOf(found, X) = {}
  /\ \A X \in DOMAIN state.agents :
        (/\ state.agents[X].visibility = "public"
         /\ Len(state.agents[X].capabilities) = 1
         /\ state.agents[X].capabilities[1].name = "x"
         /\ state.agents[X].capabilities[1].proficiency = 9)
        => LET at(min) == discover(state, [capabilities |-> Some(<<"x">>), minProficiency |-> Some(min),
                                           status |-> Undef, limit |-> None]).result.agents
           IN /\ \E i \in EntriesOf(at(Half), X) : at(Half)[i].matchScore = [num |-> 9, den |-> 1]
              /\ EntriesOf(at(One), X) = {}

\* discover has returned two agents with different scores: one that has the
\* two requested capabilities (0.9 and 0.5 over 2) and one that has one
C22_Witness ==
  /\ last = [op |-> "discover", err |-> Ok]
  /\ Len(answer.agents) = 2
  /\ answer.agents[1].matchScore = [num |-> 7, den |-> 1]
  /\ answer.agents[2].matchScore = [num |-> 9, den |-> 2]

\* the public agents of view s that pass the status filter of query q
Eligible(s, q) ==
  {X \in DOMAIN s.agents :
     /\ s.agents[X].visibility = "public"
     /\ (TruthyStr(q.status) => s.agents[X].status = q.status)}

\* the limit of a discover query (20 when not given)
LimitOf(q) == IF q.limit = None THEN DiscoverLimitDefault ELSE q.limit[1]

\* C23. Browse-all: discover with an empty capability list returns every
\* public agent that passes the status filter, up to limit, each once and
\* each with matchScore 1, whatever capabilities the agent has.
C23_BrowseAll ==
  \A q \in Queries :
     (q.capabilities = None \/ q.capabilities = Some(<< >>))
     => LET res   == discover(state, q).result
            found == res.agents
        IN /\ \A i \in 1..Len(found) : found[i].id \in Eligible(state, q)
           /\ \A i, j \in 1..Len(found) : found[i].id = found[j].id => i = j
           /\ Len(found) = Min(LimitOf(q), Cardinality(Eligible(state, q)))
           /\ \A i \in 1..Len(found) : found[i].matchScore = [num |-> One, den |-> 1]

\* thresholds in tenths: 0, 0.5, 0.9 and 1
Thresholds == {0, Half, 9, One}

\* the ids of the agents in a list of discover results
IdsOf(found) == {found[i].id : i \in 1..Len(found)}

\* C24. Discovery monotonicity: for a fixed view and a fixed query
\* (capabilities, status, limit), every agent discover returns at a higher
\* minProficiency is also returned at a lower one, and the reported total
\* does not increase.
C24_Monotone ==
  \A q \in Queries : \A lo, hi \in Thresholds :
     lo < hi
     => LET low  == discover(state, [q EXCEPT !.minProficiency = Some(lo)]).result
            high == discover(state, [q EXCEPT !.minProficiency = Some(hi)]).result
        IN /\ IdsOf(high.agents) \subseteq IdsOf(low.agents)
           /\ high.total <= low.total

DiscoverLimitMax == 100

\* the orders in which the database may return the stored agents
RowOrders(s) ==
  LET n == Cardinality(DOMAIN s.agents)
  IN {[i \in 1..n |-> s.agents[f[i]]] :
        f \in {g \in [1..n -> DOMAIN s.agents] : \A i, j \in 1..n : g[i] = g[j] => i = j}}

\* a result res for a limit, against the matches found without truncation:
\* scores do not increase along the list, the list has at most limit
\* entries, no match left out scores above a returned one, and total counts
\* the matches before truncation
Ranked(res, all, limit) ==
  /\ \A i, j \in 1..Len(res.agents) :
        i < j => ~ScoreAbove(res.agents[j], res.agents[i])
  /\ Len(res.agents) <= limit
  /\ \A k \in 1..Len(all.agents) :
        all.agents[k].id \notin IdsOf(res.agents)
        => \A i \in 1..Len(res.agents) : ~ScoreAbove(all.agents[k], res.agents[i])
  /\ res.total = Len(all.agents)

\* C25. Ranking and truncation: the agents list discovery returns is ordered
\* by non-increasing matchScore, has at most limit entries and consists of
\* the highest-scoring matches, and total is the number of matches before
\* truncation; for the discover reader and for discoverAgents.
C25_RankingTruncation ==
  \A q \in Queries :
     LET unlimited == [q EXCEPT !.limit = Some(DiscoverLimitMax)]
     IN /\ Ranked(discover(state, q).result, discover(state, unlimited).result, LimitOf(q))
        /\ \A rows \in RowOrders(state) :
              Ranked(discoverAgents(rows, q), discoverAgents(rows, unlimited), LimitOf(q))

\* every signer that can create a request, among them two whose ids share
\* their first 8 characters
Requesters == Writers \cup {"aaaaaaaa02"}

\* C26. Match ids are unique: every successful match_create adds a new entry
\* to matchRequests and never replaces a stored request, for all signers
\* (two of them sharing the first 8 characters of their ids) and for a
\* second request of one signer at the same timestamp; hence
\* stats.totalMatches equals the number of stored requests.
C26_MatchIdsUnique ==
  /\ \A w \in Requesters, p \in CreatePayloads :
        LET r == match_create(state, p, [writer |-> w, timestamp |-> now])
        IN r.err = Ok
           => /\ ~Has(state.matchRequests, MatchId(w, now))
              /\ Cardinality(DOMAIN r.state.matchRequests)
                   = Cardinality(DOMAIN state.matchRequests) + 1
  /\ state.stats.totalMatches = Cardinality(DOMAIN state.matchRequests)

\* the payloads of match_create with and without a list and a ttl
CreateTtlPayloads ==
  [requiredCapabilities : {None, Some(<< >>), Some(<<"x">>), Some(<<"x", "y">>)},
   minScore : {None, Some(8)}, taskDescription : {Undef},
   ttl : {None, Some(TtlMin), Some(TtlMin + 1)}, preferredProtocols : {None}]

ListOf(p) == IF p.requiredCapabilities = None THEN << >> ELSE p.requiredCapabilities[1]
TtlOf(p) == IF p.ttl = None THEN TtlDefault ELSE p.ttl[1]

\* match_create(p) signed by w now: with an empty list it fails with
\* EmptyCapabilitySet and stores nothing; otherwise the stored request has
\* the signer as requesterId, status pending, createdAt = the timestamp and
\* expiresAt = the timestamp plus span
CreateStores(w, p, span) ==
  LET r == match_create(state, p, [writer |-> w, timestamp |-> now])
      id == MatchId(w, now)
  IN IF Len(ListOf(p)) = 0
     THEN /\ r.err = EmptyCapabilitySet
          /\ r.old = state
     ELSE /\ r.err = Ok
          /\ Has(r.state.matchRequests, id)
          /\ r.state.matchRequests[id].requesterId = w
          /\ r.state.matchRequests[id].status = "pending"
          /\ r.state.matchRequests[id].createdAt = now
          /\ r.state.matchRequests[id].expiresAt = now + span

\* C27 as stated: expiresAt is the command timestamp plus ttl.
C27_CreateStores_Original ==
  \A w \in Writers, p \in CreateTtlPayloads : CreateStores(w, p, TtlOf(p))

\* C27. match_create with an empty requiredCapabilities list fails with
\* EmptyCapabilitySet and stores nothing; otherwise the stored request has
\* requesterId equal to the signer, status pending, createdAt equal to the
\* command timestamp, and expiresAt equal to the command timestamp plus
\* 1000 times ttl (ttl counts seconds, timestamps milliseconds).
C27_CreateStores ==
  \A w \in Writers, p \in CreateTtlPayloads : CreateStores(w, p, TtlOf(p) * 1000)

\* a request has been created after the clock moved, and is stored with its
\* deadline ttl seconds after its creation
C27_Witness ==
  /\ last = [op |-> "match_create", err |-> Ok]
  /\ \E w \in Writers :
        /\ Has(state.matchRequests, MatchId(w, now))
        /\ now > 0
        /\ state.matchRequests[MatchId(w, now)].createdAt = now
        /\ state.matchRequests[MatchId(w, now)].expiresAt = now + TtlMin * 1000
        /\ state.matchRequests[MatchId(w, now)].requesterId = w

\* the members of channel ch in view s, as a set
MembersOf(s, ch) ==
  IF Has(s.channelMembers, ch)
  THEN {s.channelMembers[ch][i] : i \in 1..Len(s.channelMembers[ch])}
  ELSE {}

\* C28. Channel membership is a set: each channel's member list has no
\* duplicate id and holds exactly the signers whose last successful channel
\* command on that channel was a join; channel_join by an unregistered signer
\* fails with NotRegistered and changes nothing; channel_join is idempotent
\* and channel_leave by a non-member or on an unknown channel changes no
\* membership.
C28_MembershipSet ==
  /\ \A ch \in Rooms :
        /\ Has(state.channelMembers, ch)
             => \A i, j \in 1..Len(state.channelMembers[ch]) :
                   state.channelMembers[ch][i] = state.channelMembers[ch][j] => i = j
        /\ MembersOf(state, ch) = {w \in Writers : <<ch, w>> \in joined}
  /\ \A c \in RoomCommands("channel_join") :
        LET r == Run(c)
        IN IF ~Has(state.agents, c.context.writer)
           THEN r.err = NotRegistered /\ r.old = state
           ELSE /\ r.err = Ok
                /\ Run(c).state.channelMembers
                     = handlers(c.op, r.state, c.payload, c.context).state.channelMembers
                /\ c.context.writer \in MembersOf(state, c.payload.channelId)
                     => r.state.channelMembers = state.channelMembers
  /\ \A c \in RoomCommands("channel_leave") :
        c.context.writer \notin MembersOf(state, c.payload.channelId)
        => /\ Run(c).err = Ok
           /\ Run(c).state.channelMembers = state.channelMembers

\* both signers are in one channel and one of them has joined the other
C28_Witness ==
  /\ last = [op |-> "channel_join", err |-> Ok]
  /\ \E ch, other \in Rooms :
        /\ ch # other
        /\ MembersOf(state, ch) = Writers
        /\ Cardinality(MembersOf(state, other)) = 1

\* the view a command leaves the host with
ViewAfter(r) == IF r.err = Ok THEN r.state ELSE r.old

\* C29. Channel counter: channel_join increments stats.totalChannels by 1
\* exactly when the channel did not exist before the join, a channel
\* existing only while its member set is non-empty (a join on a channel all
\* members have left counts as a first join); no other command changes
\* totalChannels.
C29_ChannelCounter ==
  /\ \A c \in RoomCommands("channel_join") :
        ViewAfter(Run(c)).stats.totalChannels
          = state.stats.totalChannels
            + (IF Run(c).err = Ok /\ MembersOf(state, c.payload.channelId) = {} THEN 1 ELSE 0)
  /\ \A c \in RoomCommands("channel_leave") :
        ViewAfter(Run(c)).stats.totalChannels = state.stats.totalChannels
  /\ \A op \in Ops \ {"channel_join", "channel_leave"} : \A c \in Commands(op) :
        ViewAfter(Run(c)).stats.totalChannels = state.stats.totalChannels

\* C30. Agent counter: in every reachable state stats.totalAgents equals the
\* number of Agent entries in the view, after any sequence of agent_register
\* and agent_unregister commands (agent_register by a signer that is already
\* registered included).
C30_AgentCounter ==
  state.stats.totalAgents = Cardinality(DOMAIN state.agents)

\* the keys of the proposals for request m that view s holds as accepted
AcceptedFor(s, m) ==
  {k \in DOMAIN s.matchProposals :
      s.matchProposals[k].matchId = m /\ s.matchProposals[k].status = "accepted"}

\* in view s each request has at most one accepted proposal, and that one is
\* by the proposer the request names as acceptedWith
OneAccepted(s) ==
  \A m \in DOMAIN s.matchRequests :
     /\ Cardinality(AcceptedFor(s, m)) <= 1
     /\ \A k \in AcceptedFor(s, m) :
           /\ "acceptedWith" \in DOMAIN s.matchRequests[m]
           /\ s.matchRequests[m].acceptedWith = s.matchProposals[k].proposerId

LifecycleOps == {"match_create", "match_propose", "match_accept", "match_complete"}

\* C31. In every reachable state, each match request has at most one
\* proposal with status accepted, and if such a proposal exists its
\* proposerId equals the request's acceptedWith; in the present view and in
\* the view any further command of the match lifecycle leaves.
C31_OneAccepted ==
  /\ OneAccepted(state)
  /\ \A op \in LifecycleOps : \A c \in Commands(op) : OneAccepted(ViewAfter(Run(c)))

\* the signer of c is a party to request m: its requester or the proposer
\* it was accepted with
Party(s, m, signer) ==
  \/ s.matchRequests[m].requesterId = signer
  \/ /\ "acceptedWith" \in DOMAIN s.matchRequests[m]
     /\ s.matchRequests[m].acceptedWith = signer

\* C32. Only a party to the match can complete it: match_complete signed by
\* an id that is neither the request's requesterId nor its acceptedWith does
\* not change the request's status and records no rating in any agent's
\* reputation.
C32_OnlyPartiesComplete ==
  \A c \in Commands("match_complete") :
     LET m == c.payload.matchId
         v == ViewAfter(Run(c))
     IN (Has(state.matchRequests, m) /\ ~Party(state, m, c.context.writer))
        => /\ v.matchRequests[m].status = state.matchRequests[m].status
           /\ \A X \in Writers : RatingsOf(v, X) = RatingsOf(state, X)

\* C33. In every reachable state, every registered agent's successCount is
\* at most its matchCount, for any sequence of match_accept and
\* match_complete commands (a repeated match_complete on the same request
\* included).
C33_SuccessWithinMatches ==
  \A X \in DOMAIN state.agents :
     state.agents[X].successCount <= state.agents[X].matchCount

\* a profile that lists the capability x twice
TwiceX ==
  [name |-> "gamma", description |-> Undef, capabilities |-> Some(<<CapX, CapX>>),
   protocol |-> Undef, visibility |-> Undef, endpoint |-> Undef]

\* the matchScore of every agent discover returns on view s lies in [0, 1]
ScoresInUnit(s) ==
  \A q \in Queries :
     LET agents == discover(s, q).result.agents
     IN \A i \in 1..Len(agents) :
           /\ agents[i].matchScore.num >= 0
           /\ agents[i].matchScore.num <= One * agents[i].matchScore.den

\* C34. The matchScore of every agent returned by discover lies in the
\* range [0, 1], for every reachable view and every query; also on the view
\* left by registering a profile that lists one capability name twice.
C34_ScoreRange ==
  /\ ScoresInUnit(state)
  /\ \A w \in Writers, p \in RegisterPayloads \cup {TwiceX} :
        ScoresInUnit(ViewAfter(agent_register(state, p, [writer |-> w, timestamp |-> now])))

\* the (agent id, matchedCapabilities, matchScore) of the entries of a result
TriplesOf(found) ==
  {<<found[i].id, found[i].matchedCapabilities, found[i].matchScore>> : i \in 1..Len(found)}

\* the capability index of view s lists an id under a name although the
\* view has no agent of that id with that capability
StaleIndex(s) ==
  \E n \in DOMAIN s.capabilityIndex : \E i \in 1..Len(s.capabilityIndex[n]) :
     LET X == s.capabilityIndex[n][i]
     IN \/ ~Has(s.agents, X)
        \/ \A k \in 1..Len(s.agents[X].capabilities) : s.agents[X].capabilities[k].name # n

\* C35. Index-seeded discovery equals a full scan: for every reachable view
\* and every query with a non-empty capability list, the set of (agent id,
\* matchedCapabilities, matchScore) the index-based discover reader returns
\* before truncation equals the set obtained by scanning and scoring all
\* public agents as AgentBridge.discoverAgents does; the totals agree.
C35_IndexEqualsScan ==
  \A q \in Queries :
     (q.capabilities # None /\ Len(q.capabilities[1]) > 0)
     => LET unlimited == [q EXCEPT !.limit = Some(DiscoverLimitMax)]
            indexed   == discover(state, unlimited).result
            scanned   == bridgeDiscoverAgents(state, unlimited)
        IN /\ TriplesOf(indexed.agents) = TriplesOf(scanned.agents)
           /\ indexed.total = scanned.total
           /\ discover(state, q).result.total = bridgeDiscoverAgents(state, q).total

\* discover has answered a query with a capability list by two agents, on a
\* view whose index holds a stale entry
C35_Witness ==
  /\ last.op = "discover"
  /\ answer.total = 2
  /\ \A i \in 1..Len(answer.agents) : Len(answer.agents[i].matchedCapabilities) > 0
  /\ StaleIndex(state)

\* C36. In every reachable state, every proposal with status accepted has a
\* score greater than or equal to the minScore of its match request.
C36_AcceptedMeetsMinScore ==
  \A k \in DOMAIN state.matchProposals :
     (state.matchProposals[k].status = "accepted"
      /\ Has(state.matchRequests, state.matchProposals[k].matchId))
     => state.matchProposals[k].score
          >= state.matchRequests[state.matchProposals[k].matchId].minScore

\* C37. IntercomClient: after disconnect() has been called, no reconnect
\* timer is pending and the client holds no socket unless connect() is
\* called again; the close event of the socket that disconnect() closed
\* schedules no reconnect.
C37_DisconnectStaysDown ==
  closedByUser => (~reconnectTimer /\ ws = 0)

\* the messages socket s had transmitted when the loop was entered are
\* followed by the messages queued then, each once and in order
FlushedInOrder(socks, s) ==
  /\ Len(socks[s].sent) >= Len(flushStart)
  /\ SubSeq(socks[s].sent, Len(socks[s].sent) - Len(flushStart) + 1, Len(socks[s].sent))
       = flushStart

\* C38. IntercomClient: when a successful auth_response is handled, every
\* message queued while the socket was not open is sent exactly once, in the
\* order it was queued, and the queue is empty afterwards; the flush loop
\* terminates in every state in which handleAuthResponse can run, also when
\* the socket is not open at that moment.
C38_FlushCompletes ==
  /\ [][(flushing /\ ~flushing') =>
          (messageQueue' = << >> /\ ws # 0 /\ FlushedInOrder(sockets', ws))]_vars
  /\ (flushing ~> ~flushing)

\* the last message of the queue after a step that made the queue longer
QueuedNow == messageQueue'[Len(messageQueue')]

\* C39. IntercomClient: at any time at most one heartbeat interval timer is
\* active per client; after a socket close followed by an automatic
\* reconnect the heartbeat timer of the earlier connection no longer fires,
\* and no heartbeat is queued while the client is disconnected.
C39_OneHeartbeat ==
  [][/\ Cardinality(intervals') <= 1
     /\ (heartbeatTimer' # 0 => intervals' \subseteq {heartbeatTimer'})
     /\ (_state = "disconnected" /\ Len(messageQueue') > Len(messageQueue))
          => QueuedNow.type # "heartbeat"]_vars

\* C40. IntercomClient: on each connection, no message other than the
\* auth_request is transmitted on the socket before a successful
\* auth_response has been received on it; a send() issued while the state is
\* connecting is held in the queue.
C40_AuthFirst ==
  [][/\ \A s \in 1..Len(sockets') :
          ~sockets'[s].authed
          => \A i \in 1..Len(sockets'[s].sent) : sockets'[s].sent[i].type = "auth_request"
     /\ (_state = "connecting" /\ nsends' = nsends + 1)
          => messageQueue' = Append(messageQueue, UserMessage(nsends'))]_vars

====
